---- MODULE Spec2Model ----
(***************************************************************************)
(* State-machine model of the face-api job layer                           *)
(* (src/face_embedding_processor.py): the digest job (digest_endpoint,     *)
(* digest_worker, process_image_file on a ThreadPoolExecutor), the status  *)
(* endpoints and the cluster job (cluster_endpoint, cluster_worker).       *)
(*                                                                         *)
(* External collaborators (GCS, OpenCV, DeepFace, Qdrant) are fallible:    *)
(* every call has one action per outcome the caller distinguishes.  What   *)
(* each call returned to a task is kept in the history variable calls, so  *)
(* that the job record can be compared with what really happened.          *)
(***************************************************************************)
EXTENDS Integers, Sequences, FiniteSets, Bags, TLC

\* ---------------------------------------------------------------- bounds
MaxImages == 2      \* images a source holds: 0..MaxImages
MaxFaces == 1       \* faces the detector returns for one image: 0..MaxFaces
MaxJobs == 2        \* POST /digest submissions of the restart scenario
MaxPoints == 2      \* points the collection holds when a cluster job starts
MaxScrolls == 2     \* non-empty pages one cluster job reads before its scroll raises
MaxClusterJobs == 1 \* POST /cluster-faces submissions
MaxRecords == 3     \* points the collection holds in the script's scenario
RacingJobs == 2     \* POST /cluster-faces submissions of the overlap scenario

\* DigestRequest.threads is an unvalidated int: 0 stands for every value < 1
\* (no pool can be built), 1 is the sequential pool, 2 a pool whose tasks overlap.
ThreadChoices == {0, 1, 2}
\* DigestRequest.max_retries is an unvalidated int too: -1 stands for every
\* negative value (no attempt is made), 0 is one attempt, 1 one retry.
RetryChoices == {-1, 0, 1}
Groups == {"g1"}
SourceKinds == {"gcs", "local", "s3"}
\* Groups of the points a cluster job finds in the collection.
PointGroups == {"g1", "g2"}
\* Embeddings: unit vectors at 0, 60 and 120 degrees.
Vectors == {0, 1, 2}
\* ClusterRequest.confidence in tenths: 0.4, 0.8 and 1.0.
Confidences == {4, 8, 10}

VARIABLES
    source,          \* the image source the requests name: kind, listable, n
    client,          \* POST /digest submissions the client still makes
    posted,          \* sequence of accepted DigestRequests; index = job id
    ACTIVE_DIGESTS,  \* the global dict job_id -> job record
    dpc,             \* digest_worker's position, per job
    image_files,     \* digest_worker's local image_files (its length), per job
    processed,       \* digest_worker's local processed, per job
    task,            \* process_image_file's frame, per job and image
    calls,           \* history: what the external calls returned, per job and image
    store,           \* the points of the Qdrant collection
    collection,      \* whether the target collection exists
    celery_app,      \* whether Celery is configured (celery_app is not None)
    cluster_client,  \* POST /cluster-faces submissions the client still makes
    cluster_posted,  \* sequence of accepted ClusterRequests with the id returned
    uuids,           \* number of uuid4() values minted so far
    ACTIVE_CLUSTERS, \* the global dict job_id -> cluster record, per process
    cw,              \* cluster_worker's frame, per request
    person_id,       \* payload key person_id of the points that carry one
    fc               \* the FaceClusterer object and the frame of its run; <<>>: none

\* The variables of the cluster job.
cvars == <<celery_app, cluster_client, cluster_posted, uuids, ACTIVE_CLUSTERS, cw,
           person_id, fc>>

vars == <<source, client, posted, ACTIVE_DIGESTS, dpc, image_files, processed,
          task, calls, store, collection, cvars>>

\* The digest jobs of a scenario: one frame per submission its client makes.
JobIds == DOMAIN dpc
Images(j) == 1 .. image_files[j]
Terminal == {"completed", "failed"}

\* ------------------------------------------------------------- job record
\* ACTIVE_DIGESTS[job_id] = {...} as digest_worker first writes it.  The two
\* lists that pool threads append to, upserted_ids and thumbnail_failures, are
\* kept as bags: what was appended and how often, without the order in which
\* the threads' appends interleaved.
NewDigestRecord ==
    [status |-> "processing", progress |-> 0, faces_processed |-> 0,
     total_images |-> 0, total_thumbnails_created |-> 0,
     total_thumbnails_uploaded |-> 0, error_message |-> "None",
     upserted_ids |-> EmptyBag, successful_images |-> <<>>, failed_images |-> <<>>,
     no_faces_images |-> <<>>, thumbnail_failures |-> EmptyBag, retry_count |-> 0]

\* process_image_file's locals.  faces = -1 is None; image_path_str = 0 is None.
NewTask ==
    [pc |-> "queued", image_path_str |-> 0, thumbnail_created |-> FALSE,
     attempt |-> 0, faces |-> -1, face_idx |-> 0, upserted_count |-> 0,
     tmp |-> 0, result |-> "none", upserted |-> 0, retry_count |-> 0,
     image_path |-> 0]

NewCalls ==
    [read |-> "none", faces |-> -1, embedded |-> 0, persisted |-> 0,
     exhausted |-> 0, last |-> <<>>, invoked |-> 0, over |-> FALSE,
     again |-> FALSE]

\* "similarity_threshold=0.80", the default of FaceClusterer.__init__.
similarity_threshold == 8

\* The FaceClusterer object, the frame of its run_full_clustering and what
\* find_similar_faces last returned.  payload_face_id: whether the points'
\* payload carries the key 'face_id' (the digest path's payload has none).
\* query = -1: no query made.  returned: what run_full_clustering returned.
NewFaceClusterer(th, key) ==
    [similarity_threshold |-> th, payload_face_id |-> key, pc |-> "idle",
     all_points |-> <<>>, offset |-> <<>>, person_ids |-> <<>>,
     metrics |-> [total_faces |-> 0, total_persons |-> 0,
                  max_faces_per_person |-> 0, single_face_persons |-> 0,
                  avg_cluster_purity |-> <<0, 1>>],
     next |-> 1, set_payload_calls |-> 0, successful_updates |-> 0,
     failed_updates |-> 0, returned |-> "nothing",
     query |-> -1, found |-> "none", results |-> <<>>]

Registered(j) == j \in DOMAIN ACTIVE_DIGESTS
Posted(j) == j \in 1 .. Len(posted)
max_retries(j) == posted[j].max_retries
threads(j) == posted[j].threads

\* One invocation of an external call by the thread of image i:
\* DeepFace.extract_faces ("extract", face 0), DeepFace.represent or
\* qclient.upsert of the current face.  While process_image_file runs the
\* history keeps the call that last returned a value (last) and how often the
\* call of the running retry loop has been invoked; for good it keeps whether
\* any call of the image was invoked more than max_retries + 1 times (over)
\* and whether any was invoked again after it had returned (again).  t is
\* the thread's frame after the step: it tells where the thread went.
Invoke(j, i, call, ok, t) ==
    LET c == calls[j][i]
        target == <<call, IF call = "extract" THEN 0 ELSE task[j][i].face_idx>>
        retried == t.pc = task[j][i].pc /\ t.face_idx = task[j][i].face_idx
    IN  [c EXCEPT !.last = IF t.pc = "done" THEN <<>>
                           ELSE IF ok THEN target ELSE @,
                  !.invoked = IF retried THEN @ + 1 ELSE 0,
                  !.over = @ \/ c.invoked + 1 > max_retries(j) + 1,
                  !.again = @ \/ c.last = target]

is_gcs == source.kind = "gcs"

\* No cluster job is requested.
ClusterIdle ==
    /\ celery_app = FALSE
    /\ cluster_client = 0
    /\ cluster_posted = <<>>
    /\ uuids = 0
    /\ ACTIVE_CLUSTERS = [p \in {"web", "celery"} |-> <<>>]
    /\ cw = <<>>
    /\ person_id = <<>>
    /\ fc = <<>>

Init ==
    /\ ClusterIdle
    /\ source \in [kind : SourceKinds, listable : BOOLEAN, n : 0 .. MaxImages]
    /\ client = 1
    /\ posted = <<>>
    /\ ACTIVE_DIGESTS = <<>>
    /\ dpc = [j \in 1 .. client |-> "idle"]
    /\ image_files = [j \in 1 .. client |-> 0]
    /\ processed = [j \in 1 .. client |-> 0]
    /\ task = [j \in 1 .. client |-> <<>>]
    /\ calls = [j \in 1 .. client |-> <<>>]
    /\ store = {}
    /\ collection \in BOOLEAN


\* ------------------------------------------------------- POST /digest
\* digest_endpoint: mints the job id, schedules digest_worker as a background
\* task and returns the id.  It does not touch ACTIVE_DIGESTS.  A client that
\* restarts a run submits again once the previous worker has ended.
digest_endpoint(th, mr, g) ==
    /\ client > 0
    /\ Len(posted) < MaxJobs
    /\ \A k \in 1 .. Len(posted) : dpc[k] = "done"
    /\ posted' = Append(posted, [threads |-> th, max_retries |-> mr, group_id |-> g])
    /\ dpc' = [dpc EXCEPT ![Len(posted) + 1] = "get_collection"]
    /\ client' = client - 1
    /\ UNCHANGED <<source, ACTIVE_DIGESTS, image_files, processed, task, calls,
                   store, collection, cvars>>

\* GET /get-digests/{job_id}: the handler only reads the registry, so its answer
\* to a poll made in a state is a function of that state: 404 when the id is not
\* a key of ACTIVE_DIGESTS, else the record (here: its status).
get_digest_status(j) == IF Registered(j) THEN ACTIVE_DIGESTS[j].status ELSE "404"

\* ------------------------------------------------------ digest_worker
MainUnchanged == UNCHANGED <<source, client, posted, task, calls, store, cvars>>

\* qclient.get_collection(collection) returns.
GetCollectionFound(j) ==
    /\ dpc[j] = "get_collection"
    /\ collection
    /\ dpc' = [dpc EXCEPT ![j] = "register"]
    /\ UNCHANGED <<ACTIVE_DIGESTS, image_files, processed, collection>>
    /\ MainUnchanged

\* qclient.get_collection raises (collection absent, or the store unreachable).
GetCollectionRaise(j) ==
    /\ dpc[j] = "get_collection"
    /\ dpc' = [dpc EXCEPT ![j] = "create_collection"]
    /\ UNCHANGED <<ACTIVE_DIGESTS, image_files, processed, collection>>
    /\ MainUnchanged

CreateCollectionOk(j) ==
    /\ dpc[j] = "create_collection"
    /\ ~collection
    /\ collection' = TRUE
    /\ dpc' = [dpc EXCEPT ![j] = "register"]
    /\ UNCHANGED <<ACTIVE_DIGESTS, image_files, processed>>
    /\ MainUnchanged

\* Variant of CreateCollectionRaise: create_collection without its own
\* handler, so that the exception reaches digest_worker's outer handler, which
\* marks the job failed and ends it.
CreateCollectionRaiseEscapes(j) ==
    /\ dpc[j] = "create_collection"
    /\ ACTIVE_DIGESTS' = (j :> [NewDigestRecord EXCEPT !.status = "failed"])
                           @@ ACTIVE_DIGESTS
    /\ dpc' = [dpc EXCEPT ![j] = "done"]
    /\ UNCHANGED <<image_files, processed, collection>>
    /\ MainUnchanged

\* create_collection raises (already exists, or unreachable): logged, ignored.
CreateCollectionRaise(j) ==
    /\ dpc[j] = "create_collection"
    /\ dpc' = [dpc EXCEPT ![j] = "register"]
    /\ UNCHANGED <<ACTIVE_DIGESTS, image_files, processed, collection>>
    /\ MainUnchanged

\* ACTIVE_DIGESTS[job_id] = {..., 'status': 'processing', ...}
RegisterJob(j) ==
    /\ dpc[j] = "register"
    /\ ACTIVE_DIGESTS' = (j :> NewDigestRecord) @@ ACTIVE_DIGESTS
    /\ dpc' = [dpc EXCEPT ![j] = "enumerate"]
    /\ UNCHANGED <<image_files, processed, collection>>
    /\ MainUnchanged

\* Variant of ErrorMessage: the handler that drops str(e).
ErrorMessageDropped(pc) == "None"

\* The outer "except Exception" of digest_worker: its first statement,
\* ACTIVE_DIGESTS[job_id]['status'] = 'failed', and its second,
\* ['error_message'] = str(e).
DigestFailed(rec) == [rec EXCEPT !.status = "failed"]

\* str(e) of the exception the handler caught.
ErrorMessage(pc) ==
    IF pc = "failed_listing" THEN "source not listable"
    ELSE "max_workers must be greater than 0"

\* ACTIVE_DIGESTS[job_id]['status'] = 'completed'
DigestCompleted(rec) == [rec EXCEPT !.status = "completed"]

\* What image_files holds after the listing: GCS blobs or globbed local paths;
\* for an S3 request neither branch runs and the list stays empty.
ListedImages == IF source.kind = "s3" THEN 0 ELSE source.n

\* Where digest_worker goes after the listing: "if len(image_files) == 0:"
\* marks the job completed and returns, else the pool is built.
AfterListing(n) == IF n = 0 THEN "complete" ELSE "pool"

\* Variant of AfterCompleted: the no-images branch without its "return", which
\* falls through to the pool.
AfterCompletedNoReturn(n) == IF n = 0 THEN "pool" ELSE "done"

\* Where digest_worker goes after the writes that mark the job completed: the
\* "return" of the no-images branch, or the end of the function.
AfterCompleted(n) == "done"

\* list_gcs_images raises, or the local directory does not exist: ValueError,
\* caught by the outer handler.
ListImagesRaise(j) ==
    /\ dpc[j] = "enumerate"
    /\ source.kind # "s3"
    /\ ~source.listable
    /\ ACTIVE_DIGESTS' = [ACTIVE_DIGESTS EXCEPT ![j] = DigestFailed(@)]
    /\ dpc' = [dpc EXCEPT ![j] = "failed_listing"]
    /\ UNCHANGED <<image_files, processed, collection>>
    /\ MainUnchanged

\* ACTIVE_DIGESTS[job_id]['total_images'] = len(image_files)
ListImages(j) ==
    /\ dpc[j] = "enumerate"
    /\ source.kind = "s3" \/ source.listable
    /\ image_files' = [image_files EXCEPT ![j] = ListedImages]
    /\ ACTIVE_DIGESTS' = [ACTIVE_DIGESTS EXCEPT ![j].total_images = ListedImages]
    /\ dpc' = [dpc EXCEPT ![j] = AfterListing(ListedImages)]
    /\ UNCHANGED <<processed, collection>>
    /\ MainUnchanged

\* ThreadPoolExecutor(max_workers=threads) raises ValueError for threads <= 0.
CreatePoolRaise(j) ==
    /\ dpc[j] = "pool"
    /\ threads(j) < 1
    /\ ACTIVE_DIGESTS' = [ACTIVE_DIGESTS EXCEPT ![j] = DigestFailed(@)]
    /\ dpc' = [dpc EXCEPT ![j] = "failed_pool"]
    /\ UNCHANGED <<image_files, processed, collection>>
    /\ MainUnchanged

\* executor.map(process_image_file, image_files) submits every image at once.
CreatePool(j) ==
    /\ dpc[j] = "pool"
    /\ threads(j) >= 1
    /\ task' = [task EXCEPT ![j] = [i \in Images(j) |-> NewTask]]
    /\ calls' = [calls EXCEPT ![j] = [i \in Images(j) |-> NewCalls]]
    /\ dpc' = [dpc EXCEPT ![j] = IF image_files[j] = 0 THEN "complete" ELSE "collect"]
    /\ UNCHANGED <<source, client, posted, ACTIVE_DIGESTS, image_files, processed,
                   store, collection, cvars>>

\* Variant of Categorize: "if" in place of "elif", so that a success result
\* also reaches the final "else".
CategorizeFallThrough(rec, i, r) ==
    LET entry == [img |-> i, path |-> r.image_path,
                  thumbnail_created |-> r.thumbnail_created]
        first ==
          IF r.result = "success"
          THEN [rec EXCEPT
                  !.successful_images = Append(@,
                      entry @@ [faces_extracted |-> r.upserted]),
                  !.faces_processed = @ + r.upserted]
          ELSE rec
        second ==
          IF r.result = "no_faces"
          THEN [first EXCEPT !.no_faces_images = Append(@, entry)]
          ELSE [first EXCEPT
                  !.failed_images = Append(@, entry @@ [retries |-> r.retry_count])]
    IN  [second EXCEPT !.retry_count = @ + r.retry_count]

\* Variant of Categorize: faces_processed assigned, not accumulated.
CategorizeOverwrite(rec, i, r) ==
    LET entry == [img |-> i, path |-> r.image_path,
                  thumbnail_created |-> r.thumbnail_created]
        withEntry ==
          IF r.result = "success"
          THEN [rec EXCEPT
                  !.successful_images = Append(@,
                      entry @@ [faces_extracted |-> r.upserted]),
                  !.faces_processed = r.upserted]
          ELSE IF r.result = "no_faces"
          THEN [rec EXCEPT !.no_faces_images = Append(@, entry)]
          ELSE [rec EXCEPT
                  !.failed_images = Append(@, entry @@ [retries |-> r.retry_count])]
    IN  [withEntry EXCEPT !.retry_count = @ + r.retry_count]

\* One iteration of "for result in executor.map(...)": results come in the
\* order of image_files.  img is the position of the result in that order.
Categorize(rec, i, r) ==
    LET withEntry ==
          IF r.result = "success"
          THEN [rec EXCEPT
                  !.successful_images = Append(@,
                      [img |-> i, path |-> r.image_path,
                       faces_extracted |-> r.upserted,
                       thumbnail_created |-> r.thumbnail_created]),
                  !.faces_processed = @ + r.upserted]
          ELSE IF r.result = "no_faces"
          THEN [rec EXCEPT
                  !.no_faces_images = Append(@,
                      [img |-> i, path |-> r.image_path,
                       thumbnail_created |-> r.thumbnail_created])]
          ELSE [rec EXCEPT
                  !.failed_images = Append(@,
                      [img |-> i, path |-> r.image_path, retries |-> r.retry_count,
                       thumbnail_created |-> r.thumbnail_created])]
    IN  [withEntry EXCEPT !.retry_count = @ + r.retry_count]

CollectResult(j) ==
    /\ dpc[j] = "collect"
    /\ LET i == processed[j] + 1 IN
        /\ task[j][i].pc = "done"
        /\ ACTIVE_DIGESTS' = [ACTIVE_DIGESTS EXCEPT ![j] =
              [Categorize(@, i, task[j][i]) EXCEPT
                  !.progress = (i * 100) \div image_files[j]]]
        /\ processed' = [processed EXCEPT ![j] = i]
        /\ dpc' = [dpc EXCEPT ![j] = IF i = image_files[j] THEN "complete" ELSE "collect"]
        /\ calls' = [calls EXCEPT ![j][i] = NewCalls]
    /\ UNCHANGED <<source, client, posted, image_files, task, store, collection,
                   cvars>>

\* The handler's remaining writes: error_message (and end_time).
RecordError(j) ==
    /\ dpc[j] \in {"failed_listing", "failed_pool"}
    /\ ACTIVE_DIGESTS' = [ACTIVE_DIGESTS EXCEPT
                            ![j].error_message = ErrorMessage(dpc[j])]
    /\ dpc' = [dpc EXCEPT ![j] = "done"]
    /\ UNCHANGED <<image_files, processed, collection>>
    /\ MainUnchanged

\* "Mark as completed": the status write ...
MarkCompleted(j) ==
    /\ dpc[j] = "complete"
    /\ ACTIVE_DIGESTS' = [ACTIVE_DIGESTS EXCEPT ![j] = DigestCompleted(@)]
    /\ dpc' = [dpc EXCEPT ![j] = "completed"]
    /\ UNCHANGED <<image_files, processed, collection>>
    /\ MainUnchanged

\* ... and the writes that follow it: progress = 100 (and end_time).
FinishCompleted(j) ==
    /\ dpc[j] = "completed"
    /\ ACTIVE_DIGESTS' = [ACTIVE_DIGESTS EXCEPT ![j].progress = 100]
    /\ dpc' = [dpc EXCEPT ![j] = AfterCompleted(image_files[j])]
    /\ UNCHANGED <<image_files, processed, collection>>
    /\ MainUnchanged

\* ------------------------------------------- process_image_file (worker)
Running(j) == {i \in DOMAIN task[j] : task[j][i].pc \notin {"queued", "done"}}

\* A "return {...}" of process_image_file: the result dict the pool hands back.
Return(t, status, path, upserted, retries) ==
    [NewTask EXCEPT !.pc = "done", !.result = status, !.image_path = path,
                    !.upserted = upserted, !.retry_count = retries,
                    !.thumbnail_created = t.thumbnail_created]

\* Variant of NextFace: "upserted_count >= 0" in place of "> 0".
NextFaceAnyCount(t) ==
    IF t.face_idx < t.faces
    THEN [t EXCEPT !.pc = "represent", !.face_idx = @ + 1, !.attempt = 0]
    ELSE IF t.upserted_count >= 0
         THEN Return(t, "success", t.image_path_str, t.upserted_count, 0)
         ELSE Return(t, "no_faces", t.image_path_str, 0, 0)

\* The end of one iteration of "for face_idx, face in enumerate(faces)", and
\* after the last face the "if upserted_count > 0" return.
NextFace(t) ==
    IF t.face_idx < t.faces
    THEN [t EXCEPT !.pc = "represent", !.face_idx = @ + 1, !.attempt = 0]
    ELSE IF t.upserted_count > 0
         THEN Return(t, "success", t.image_path_str, t.upserted_count, 0)
         ELSE Return(t, "no_faces", t.image_path_str, 0, 0)

\* Variant of Retry: a loop that does not advance its attempt number.
RetrySameAttempt(t) == t

\* "if attempt < max_retries: continue": the retry loops' next attempt.
Retry(t) == [t EXCEPT !.attempt = @ + 1]

\* Variant of FaceId: the id minted inside the upsert retry loop, a fresh one
\* for each attempt.
FaceIdPerAttempt(j, i, f) == <<j, i, f, task[j][i].attempt>>

\* face_id = str(uuid.uuid4()), minted once per embedded face, and the point.
FaceId(j, i, f) == <<j, i, f>>

\* embedding_objs[0]['embedding']: the model's embedding of face f of image i.
Embedding(i, f) == (i + f) % Cardinality(Vectors)

Point(j, i, f) ==
    [id |-> FaceId(j, i, f), vector |-> Embedding(i, f),
     group_id |-> posted[j].group_id, image_path |-> i, face_index |-> f]

TaskUnchanged == UNCHANGED <<source, client, posted, dpc, image_files, processed,
                             collection, cvars>>

\* A pool thread is free to take image i: images are started in list order, at
\* most threads of them at a time.
CanStart(j, i) ==
    /\ dpc[j] = "collect"
    /\ i \in DOMAIN task[j]
    /\ task[j][i].pc = "queued"
    /\ \A k \in 1 .. (i - 1) : task[j][k].pc # "queued"
    /\ Cardinality(Running(j)) < threads(j)

At(j, i, pc) == i \in DOMAIN task[j] /\ task[j][i].pc = pc

\* A pool thread takes image i; download_gcs_image / cv2.imread returns an image.
ReadOk(j, i) ==
    /\ CanStart(j, i)
    /\ task' = [task EXCEPT ![j][i] =
                  [@ EXCEPT !.image_path_str = i,
                            !.pc = IF is_gcs THEN "thumbnail" ELSE "extract"]]
    /\ calls' = [calls EXCEPT ![j][i].read = "ok"]
    /\ UNCHANGED <<ACTIVE_DIGESTS, store>>
    /\ TaskUnchanged

\* ... the image decodes to None: "Could not read image file".
ReadNone(j, i) ==
    /\ CanStart(j, i)
    /\ task' = [task EXCEPT ![j][i] = Return(@, "failed", i, 0, 0)]
    /\ calls' = [calls EXCEPT ![j][i].read = "unreadable"]
    /\ UNCHANGED <<ACTIVE_DIGESTS, store>>
    /\ TaskUnchanged

\* Variant of ReadRaise: process_image_file without its handlers, so that the
\* exception leaves the pool and reaches digest_worker's outer handler.
ReadRaiseEscapes(j, i) ==
    /\ CanStart(j, i)
    /\ ACTIVE_DIGESTS' = [ACTIVE_DIGESTS EXCEPT ![j] = DigestFailed(@)]
    /\ dpc' = [dpc EXCEPT ![j] = "failed_pool"]
    /\ UNCHANGED <<source, client, posted, image_files, processed, task, calls,
                   store, collection, cvars>>

\* ... the read raises.  GCS: the download's own handler names the blob.  Local:
\* cv2.imread raises before image_path_str is set and the outer handler
\* reports image_path_str or 'unknown' (path 0).
ReadRaise(j, i) ==
    /\ CanStart(j, i)
    /\ task' = [task EXCEPT ![j][i] =
                  Return(@, "failed", IF is_gcs THEN i ELSE 0, 0, 0)]
    /\ calls' = [calls EXCEPT ![j][i].read = "raise"]
    /\ UNCHANGED <<ACTIVE_DIGESTS, store>>
    /\ TaskUnchanged

\* ACTIVE_DIGESTS[job_id]['total_thumbnails_created'] += 1 and the same for
\* total_thumbnails_uploaded are each a read, an add and a write of the shared
\* dict with no lock held: another thread can write between the read and the
\* write.  tmp is the value read.  A step that touches nothing shared is taken
\* together with the read that follows it.

\* create_thumbnail_from_image and upload_thumbnail_to_gcs return; the thread
\* reads total_thumbnails_created.
ThumbnailOk(j, i) ==
    /\ At(j, i, "thumbnail")
    /\ task' = [task EXCEPT ![j][i] =
                  [@ EXCEPT !.thumbnail_created = TRUE,
                            !.tmp = ACTIVE_DIGESTS[j].total_thumbnails_created,
                            !.pc = "created_store"]]
    /\ UNCHANGED <<ACTIVE_DIGESTS, calls, store>>
    /\ TaskUnchanged

\* Variant of ThumbnailRaise: the thumbnail step without its own handler, so
\* that the exception reaches process_image_file's outer handler.
ThumbnailRaiseFails(j, i) ==
    /\ At(j, i, "thumbnail")
    /\ task' = [task EXCEPT ![j][i] = Return(@, "failed", @.image_path_str, 0, 0)]
    /\ UNCHANGED <<ACTIVE_DIGESTS, calls, store>>
    /\ TaskUnchanged

\* One of them raises: recorded in thumbnail_failures, processing continues.
ThumbnailRaise(j, i) ==
    /\ At(j, i, "thumbnail")
    /\ ACTIVE_DIGESTS' = [ACTIVE_DIGESTS EXCEPT
            ![j].thumbnail_failures = @ (+) SetToBag({task[j][i].image_path_str})]
    /\ task' = [task EXCEPT ![j][i].pc = "extract"]
    /\ UNCHANGED <<calls, store>>
    /\ TaskUnchanged

\* The thread writes total_thumbnails_created and reads total_thumbnails_uploaded.
CreatedStore(j, i) ==
    /\ At(j, i, "created_store")
    /\ ACTIVE_DIGESTS' = [ACTIVE_DIGESTS EXCEPT
            ![j].total_thumbnails_created = task[j][i].tmp + 1]
    /\ task' = [task EXCEPT ![j][i] =
                  [@ EXCEPT !.tmp = ACTIVE_DIGESTS[j].total_thumbnails_uploaded,
                            !.pc = "uploaded_store"]]
    /\ UNCHANGED <<calls, store>>
    /\ TaskUnchanged

\* The thread writes total_thumbnails_uploaded.
UploadedStore(j, i) ==
    /\ At(j, i, "uploaded_store")
    /\ ACTIVE_DIGESTS' = [ACTIVE_DIGESTS EXCEPT
            ![j].total_thumbnails_uploaded = task[j][i].tmp + 1]
    /\ task' = [task EXCEPT ![j][i] = [@ EXCEPT !.tmp = 0, !.pc = "extract"]]
    /\ UNCHANGED <<calls, store>>
    /\ TaskUnchanged

\* "for attempt in range(max_retries + 1)" with max_retries < 0 runs no attempt:
\* faces stays None.
ExtractNoAttempt(j, i) ==
    /\ At(j, i, "extract")
    /\ max_retries(j) < 0
    /\ task' = [task EXCEPT ![j][i] =
                  Return(@, "failed", @.image_path_str, 0, max_retries(j) + 1)]
    /\ UNCHANGED <<ACTIVE_DIGESTS, calls, store>>
    /\ TaskUnchanged

\* DeepFace.extract_faces returns n faces.
ExtractFacesOk(j, i, n) ==
    /\ At(j, i, "extract")
    /\ task[j][i].attempt <= max_retries(j)
    /\ LET t == IF n = 0
                THEN Return(task[j][i], "no_faces", task[j][i].image_path_str, 0, 0)
                ELSE [task[j][i] EXCEPT !.faces = n, !.face_idx = 1, !.attempt = 0,
                                        !.upserted_count = 0, !.pc = "represent"]
       IN  /\ task' = [task EXCEPT ![j][i] = t]
           /\ calls' = [calls EXCEPT ![j][i] =
                         [Invoke(j, i, "extract", TRUE, t) EXCEPT !.faces = n]]
    /\ UNCHANGED <<ACTIVE_DIGESTS, store>>
    /\ TaskUnchanged

\* DeepFace.extract_faces raises: retried, then "failed" after the last attempt.
ExtractFacesRaise(j, i) ==
    /\ At(j, i, "extract")
    /\ task[j][i].attempt <= max_retries(j)
    /\ LET t == IF task[j][i].attempt < max_retries(j)
                THEN Retry(task[j][i])
                ELSE Return(task[j][i], "failed", task[j][i].image_path_str, 0,
                            max_retries(j) + 1)
       IN  /\ task' = [task EXCEPT ![j][i] = t]
           /\ calls' = [calls EXCEPT ![j][i] = Invoke(j, i, "extract", FALSE, t)]
    /\ UNCHANGED <<ACTIVE_DIGESTS, store>>
    /\ TaskUnchanged

\* DeepFace.represent returns the embedding of the current face.
RepresentOk(j, i) ==
    /\ At(j, i, "represent")
    /\ LET t == [task[j][i] EXCEPT !.attempt = 0, !.pc = "upsert"]
       IN  /\ task' = [task EXCEPT ![j][i] = t]
           /\ calls' = [calls EXCEPT ![j][i] =
                         [Invoke(j, i, "represent", TRUE, t)
                             EXCEPT !.embedded = @ + 1]]
    /\ UNCHANGED <<ACTIVE_DIGESTS, store>>
    /\ TaskUnchanged

\* DeepFace.represent raises: retried, then the face is skipped ("continue").
RepresentRaise(j, i) ==
    /\ At(j, i, "represent")
    /\ LET t == IF task[j][i].attempt < max_retries(j)
                THEN Retry(task[j][i]) ELSE NextFace(task[j][i])
       IN  /\ task' = [task EXCEPT ![j][i] = t]
           /\ calls' = [calls EXCEPT ![j][i] = Invoke(j, i, "represent", FALSE, t)]
    /\ UNCHANGED <<ACTIVE_DIGESTS, store>>
    /\ TaskUnchanged

\* qclient.upsert returns: the point is stored and counted.  An upsert into a
\* collection that does not exist raises.
UpsertOk(j, i) ==
    /\ At(j, i, "upsert")
    /\ collection
    /\ store' = store \cup {Point(j, i, task[j][i].face_idx)}
    /\ ACTIVE_DIGESTS' = [ACTIVE_DIGESTS EXCEPT
            ![j].upserted_ids = @ (+) SetToBag({FaceId(j, i, task[j][i].face_idx)})]
    /\ LET t == NextFace([task[j][i] EXCEPT !.upserted_count = @ + 1])
       IN  /\ task' = [task EXCEPT ![j][i] = t]
           /\ calls' = [calls EXCEPT ![j][i] =
                         [Invoke(j, i, "upsert", TRUE, t)
                             EXCEPT !.persisted = @ + 1]]
    /\ TaskUnchanged

\* Variant of UpsertRaise: upserted_count incremented before the call, so that
\* a raising attempt is counted too.
UpsertRaiseCounted(j, i) ==
    /\ At(j, i, "upsert")
    /\ LET c == [task[j][i] EXCEPT !.upserted_count = @ + 1]
           t == IF task[j][i].attempt < max_retries(j) THEN Retry(c) ELSE NextFace(c)
       IN  /\ task' = [task EXCEPT ![j][i] = t]
           /\ calls' = [calls EXCEPT ![j][i] = Invoke(j, i, "upsert", FALSE, t)]
    /\ UNCHANGED <<ACTIVE_DIGESTS, store>>
    /\ TaskUnchanged

\* qclient.upsert raises: retried; after the last attempt the "raise" is caught
\* by the per-face "except Exception: ... continue".
UpsertRaise(j, i) ==
    /\ At(j, i, "upsert")
    /\ LET t == IF task[j][i].attempt < max_retries(j)
                THEN Retry(task[j][i]) ELSE NextFace(task[j][i])
       IN  /\ task' = [task EXCEPT ![j][i] = t]
           /\ calls' = [calls EXCEPT ![j][i] =
                         [Invoke(j, i, "upsert", FALSE, t) EXCEPT
                             !.exhausted =
                                 IF task[j][i].attempt < max_retries(j)
                                 THEN @ ELSE @ + 1]]
    /\ UNCHANGED <<ACTIVE_DIGESTS, store>>
    /\ TaskUnchanged

\* qclient.upsert raises although the store applied the write (the response
\* was lost or timed out): the point is stored, the thread sees a failure.
UpsertRaiseWritten(j, i) ==
    /\ At(j, i, "upsert")
    /\ collection
    /\ store' = store \cup {Point(j, i, task[j][i].face_idx)}
    /\ LET t == IF task[j][i].attempt < max_retries(j)
                THEN Retry(task[j][i]) ELSE NextFace(task[j][i])
       IN  /\ task' = [task EXCEPT ![j][i] = t]
           /\ calls' = [calls EXCEPT ![j][i] =
                         [Invoke(j, i, "upsert", FALSE, t) EXCEPT
                             !.exhausted =
                                 IF task[j][i].attempt < max_retries(j)
                                 THEN @ ELSE @ + 1]]
    /\ UNCHANGED ACTIVE_DIGESTS
    /\ TaskUnchanged

\* ---------------------------------------------------------- specification
WorkerStep(j) ==
    \/ GetCollectionFound(j)
    \/ GetCollectionRaise(j)
    \/ CreateCollectionOk(j)
    \/ CreateCollectionRaise(j)
    \/ RegisterJob(j)
    \/ ListImagesRaise(j)
    \/ ListImages(j)
    \/ CreatePoolRaise(j)
    \/ CreatePool(j)
    \/ CollectResult(j)
    \/ RecordError(j)
    \/ MarkCompleted(j)
    \/ FinishCompleted(j)

TaskStep(j, i) ==
    \/ ReadOk(j, i)
    \/ ReadNone(j, i)
    \/ ReadRaise(j, i)
    \/ ThumbnailOk(j, i)
    \/ ThumbnailRaise(j, i)
    \/ CreatedStore(j, i)
    \/ UploadedStore(j, i)
    \/ ExtractNoAttempt(j, i)
    \/ \E n \in 0 .. MaxFaces : ExtractFacesOk(j, i, n)
    \/ ExtractFacesRaise(j, i)
    \/ RepresentOk(j, i)
    \/ RepresentRaise(j, i)
    \/ UpsertOk(j, i)
    \/ UpsertRaise(j, i)

Next ==
    \/ \E th \in ThreadChoices, mr \in RetryChoices, g \in Groups :
          digest_endpoint(th, mr, g)
    \/ \E j \in JobIds : WorkerStep(j)
    \/ \E j \in JobIds, i \in 1 .. MaxImages : TaskStep(j, i)

Spec == Init /\ [][Next]_vars

\* ------------------------------------------------- a call that never returns
\* DeepFace.extract_faces, DeepFace.represent or qclient.upsert is invoked and
\* never returns: the pool thread stays inside the call.  No timeout is passed
\* to the calls, to executor.map or to the pool.
CallHangs(j, i) ==
    /\ \/ At(j, i, "extract") /\ task[j][i].attempt <= max_retries(j)
       \/ At(j, i, "represent")
       \/ At(j, i, "upsert")
    /\ task' = [task EXCEPT ![j][i].pc = "hung"]
    /\ UNCHANGED <<ACTIVE_DIGESTS, calls, store>>
    /\ TaskUnchanged

\* A step of digest job j: of its worker or of one of its pool threads.
JobStep(j) == WorkerStep(j) \/ \E i \in 1 .. MaxImages : TaskStep(j, i)

NextHang ==
    \/ Next
    \/ \E j \in JobIds, i \in 1 .. MaxImages : CallHangs(j, i)

SpecHang == Init /\ [][NextHang]_vars

\* The restart scenario: over a readable local source whose collection exists,
\* a client submits the same request again after each run has ended, and the
\* external calls succeed.
InitRestart ==
    /\ ClusterIdle
    /\ source \in [kind : {"local"}, listable : {TRUE}, n : 1 .. MaxImages]
    /\ client = MaxJobs
    /\ posted = <<>>
    /\ ACTIVE_DIGESTS = <<>>
    /\ dpc = [j \in 1 .. client |-> "idle"]
    /\ image_files = [j \in 1 .. client |-> 0]
    /\ processed = [j \in 1 .. client |-> 0]
    /\ task = [j \in 1 .. client |-> <<>>]
    /\ calls = [j \in 1 .. client |-> <<>>]
    /\ store = {}
    /\ collection = TRUE

NextRestart ==
    \/ \E g \in Groups : digest_endpoint(1, 0, g)
    \/ \E j \in JobIds : GetCollectionFound(j)
    \/ \E j \in JobIds : RegisterJob(j)
    \/ \E j \in JobIds : ListImages(j)
    \/ \E j \in JobIds : CreatePool(j)
    \/ \E j \in JobIds : CollectResult(j)
    \/ \E j \in JobIds : MarkCompleted(j)
    \/ \E j \in JobIds : FinishCompleted(j)
    \/ \E j \in JobIds, i \in 1 .. MaxImages : ReadOk(j, i)
    \/ \E j \in JobIds, i \in 1 .. MaxImages, n \in 0 .. MaxFaces : ExtractFacesOk(j, i, n)
    \/ \E j \in JobIds, i \in 1 .. MaxImages : RepresentOk(j, i)
    \/ \E j \in JobIds, i \in 1 .. MaxImages : UpsertOk(j, i)

SpecRestart == InitRestart /\ [][NextRestart]_vars

\* The lost-response scenario: a one-thread job over a readable local source
\* whose store applies every write it receives, while the response to an
\* upsert may be lost, so that the call raises after the point was stored.
InitUpsert ==
    /\ ClusterIdle
    /\ source \in [kind : {"local"}, listable : {TRUE}, n : 1 .. MaxImages]
    /\ client = 1
    /\ posted = <<>>
    /\ ACTIVE_DIGESTS = <<>>
    /\ dpc = [j \in 1 .. client |-> "idle"]
    /\ image_files = [j \in 1 .. client |-> 0]
    /\ processed = [j \in 1 .. client |-> 0]
    /\ task = [j \in 1 .. client |-> <<>>]
    /\ calls = [j \in 1 .. client |-> <<>>]
    /\ store = {}
    /\ collection = TRUE

NextUpsert ==
    \/ \E mr \in {0, 1}, g \in Groups : digest_endpoint(1, mr, g)
    \/ \E j \in JobIds : GetCollectionFound(j)
    \/ \E j \in JobIds : RegisterJob(j)
    \/ \E j \in JobIds : ListImages(j)
    \/ \E j \in JobIds : CreatePool(j)
    \/ \E j \in JobIds : CollectResult(j)
    \/ \E j \in JobIds : MarkCompleted(j)
    \/ \E j \in JobIds : FinishCompleted(j)
    \/ \E j \in JobIds, i \in 1 .. MaxImages : ReadOk(j, i)
    \/ \E j \in JobIds, i \in 1 .. MaxImages, n \in 0 .. MaxFaces : ExtractFacesOk(j, i, n)
    \/ \E j \in JobIds, i \in 1 .. MaxImages : RepresentOk(j, i)
    \/ \E j \in JobIds, i \in 1 .. MaxImages : UpsertOk(j, i)
    \/ \E j \in JobIds, i \in 1 .. MaxImages : UpsertRaiseWritten(j, i)

SpecUpsert == InitUpsert /\ [][NextUpsert]_vars

\* The provisioning race: MaxJobs requests were accepted one after the other
\* and their workers run side by side (FastAPI runs each background task on
\* its own pool thread); the collection does not exist and every worker makes
\* its check before any of them creates it.  The store is reachable:
\* get_collection raises because the collection is absent, create_collection
\* because it exists.
InitDigestRace ==
    /\ ClusterIdle
    /\ source = [kind |-> "local", listable |-> TRUE, n |-> 1]
    /\ client = 0
    /\ posted = [j \in 1 .. MaxJobs |->
                    [threads |-> 1, max_retries |-> 0, group_id |-> "g1"]]
    /\ ACTIVE_DIGESTS = <<>>
    /\ dpc = [j \in 1 .. MaxJobs |-> "get_collection"]
    /\ image_files = [j \in 1 .. MaxJobs |-> 0]
    /\ processed = [j \in 1 .. MaxJobs |-> 0]
    /\ task = [j \in 1 .. MaxJobs |-> <<>>]
    /\ calls = [j \in 1 .. MaxJobs |-> <<>>]
    /\ store = {}
    /\ collection = FALSE

\* Every worker has made its check.
AllChecked == \A j \in JobIds : dpc[j] # "get_collection"

NextDigestRace ==
    \/ \E j \in JobIds : ~collection /\ GetCollectionRaise(j)
    \/ \E j \in JobIds : AllChecked /\ CreateCollectionOk(j)
    \/ \E j \in JobIds : collection /\ CreateCollectionRaise(j)
    \/ \E j \in JobIds : RegisterJob(j)
    \/ \E j \in JobIds : ListImages(j)
    \/ \E j \in JobIds : CreatePool(j)
    \/ \E j \in JobIds : CollectResult(j)
    \/ \E j \in JobIds : MarkCompleted(j)
    \/ \E j \in JobIds : FinishCompleted(j)
    \/ \E j \in JobIds, i \in 1 .. MaxImages : ReadOk(j, i)
    \/ \E j \in JobIds, i \in 1 .. MaxImages, n \in 0 .. MaxFaces : ExtractFacesOk(j, i, n)
    \/ \E j \in JobIds, i \in 1 .. MaxImages : RepresentOk(j, i)
    \/ \E j \in JobIds, i \in 1 .. MaxImages : UpsertOk(j, i)

SpecDigestRace == InitDigestRace /\ [][NextDigestRace]_vars

\* ------------------------------------------------- POST /cluster-faces
\* The process whose ACTIVE_CLUSTERS a cluster_worker writes: the Celery worker
\* process when the task was sent with delay(), else the web process.
WorkerProcess == IF celery_app THEN "celery" ELSE "web"

ClusterUnchanged ==
    UNCHANGED <<source, client, posted, ACTIVE_DIGESTS, dpc, image_files, processed,
                task, calls, store, collection, celery_app, fc>>

\* cluster_worker's locals.  job_id = 0 is "not yet minted".
NewClusterFrame ==
    [pc |-> "start", job_id |-> 0, all_points |-> <<>>, offset |-> 0, scrolls |-> 0,
     cluster_labels |-> <<>>, next |-> 1, updated_count |-> 0]

\* cluster_endpoint: with Celery the id returned is the task id res.id, without
\* it a uuid minted in the handler; either way a fresh value.  The worker is
\* started with group_id, collection and confidence only.
cluster_endpoint(g, c) ==
    /\ cluster_client > 0
    /\ cluster_posted' = Append(cluster_posted,
                                [job_id |-> uuids + 1, group_id |-> g, confidence |-> c])
    /\ uuids' = uuids + 1
    /\ cw' = Append(cw, NewClusterFrame)
    /\ cluster_client' = cluster_client - 1
    /\ UNCHANGED <<ACTIVE_CLUSTERS, person_id>>
    /\ ClusterUnchanged

\* GET /get-clusters/{job_id}, served by the web process: 404 when the id is
\* not a key of its ACTIVE_CLUSTERS, else the record.
get_cluster_status(id) ==
    IF id \in DOMAIN ACTIVE_CLUSTERS["web"] THEN ACTIVE_CLUSTERS["web"][id] ELSE "404"

\* ----------------------------------------------------- cluster_worker
\* ACTIVE_CLUSTERS[job_id] = {...} as cluster_worker first writes it.
NewClusterRecord(id, req) ==
    [job_id |-> id, group_id |-> req.group_id, confidence |-> req.confidence,
     status |-> "processing", total_faces |-> 0, clusters_created |-> 0,
     faces_updated |-> 0, error |-> "None"]

\* job_id = f"cluster-{uuid.uuid4()}" and the registration under that id.
ClusterRegister(r) ==
    /\ r \in DOMAIN cw
    /\ cw[r].pc = "start"
    /\ uuids' = uuids + 1
    /\ ACTIVE_CLUSTERS' = [ACTIVE_CLUSTERS EXCEPT ![WorkerProcess] =
            ((uuids + 1) :> NewClusterRecord(uuids + 1, cluster_posted[r])) @@ @]
    /\ cw' = [cw EXCEPT ![r] = [@ EXCEPT !.pc = "scroll", !.job_id = uuids + 1]]
    /\ UNCHANGED <<cluster_client, cluster_posted, person_id>>
    /\ ClusterUnchanged

\* Point ids are uuids; the collection keeps its points in id order.
IdLess(a, b) ==
    \/ a[1] < b[1]
    \/ a[1] = b[1] /\ a[2] < b[2]
    \/ a[1] = b[1] /\ a[2] = b[2] /\ a[3] < b[3]

RECURSIVE InIdOrder(_)
InIdOrder(S) ==
    IF S = {} THEN <<>>
    ELSE LET first == CHOOSE p \in S : \A q \in S \ {p} : IdLess(p.id, q.id)
         IN  <<first>> \o InIdOrder(S \ {first})

batch_size == 100

\* qclient.scroll(limit=batch_size, offset=offset)[0]: offset is the point id to
\* start from, and every uuid id sorts after every integer id, so an integer
\* offset skips no point of the collection: the page is its first limit points.
scroll(offset, limit) ==
    LET all == InIdOrder(store)
    IN  SubSeq(all, 1, IF Len(all) < limit THEN Len(all) ELSE limit)

\* Variant of FilterGroup: every point of the page is appended, whatever its
\* group.
FilterNothing(points, g) == points

\* "if point.payload.get('group_id') == group_id: all_points.append(point)"
FilterGroup(points, g) == SelectSeq(points, LAMBDA p : p.group_id = g)

\* A non-empty page: its points of the group are appended, offset += batch_size.
ScrollPage(r) ==
    /\ r \in DOMAIN cw
    /\ cw[r].pc = "scroll"
    /\ cw[r].scrolls < MaxScrolls
    /\ scroll(cw[r].offset, batch_size) # <<>>
    /\ cw' = [cw EXCEPT ![r] =
                [@ EXCEPT !.all_points = @ \o FilterGroup(scroll(cw[r].offset, batch_size),
                                                          cluster_posted[r].group_id),
                          !.offset = @ + batch_size,
                          !.scrolls = @ + 1]]
    /\ UNCHANGED <<cluster_client, cluster_posted, uuids, ACTIVE_CLUSTERS, person_id>>
    /\ ClusterUnchanged

\* "if not points: break"
ScrollEmpty(r) ==
    /\ r \in DOMAIN cw
    /\ cw[r].pc = "scroll"
    /\ scroll(cw[r].offset, batch_size) = <<>>
    /\ cw' = [cw EXCEPT ![r].pc = "fetched"]
    /\ UNCHANGED <<cluster_client, cluster_posted, uuids, ACTIVE_CLUSTERS, person_id>>
    /\ ClusterUnchanged

\* qclient.scroll raises: "Error scrolling" is printed and the loop is left
\* with what was collected so far.
ScrollRaise(r) ==
    /\ r \in DOMAIN cw
    /\ cw[r].pc = "scroll"
    /\ cw' = [cw EXCEPT ![r].pc = "fetched"]
    /\ UNCHANGED <<cluster_client, cluster_posted, uuids, ACTIVE_CLUSTERS, person_id>>
    /\ ClusterUnchanged

\* "if not all_points:" the job is completed with no faces.
ClusterNoFaces(r) ==
    /\ r \in DOMAIN cw
    /\ cw[r].pc = "fetched"
    /\ cw[r].all_points = <<>>
    /\ ACTIVE_CLUSTERS' = [ACTIVE_CLUSTERS EXCEPT ![WorkerProcess][cw[r].job_id] =
            [@ EXCEPT !.status = "completed", !.total_faces = 0,
                      !.clusters_created = 0]]
    /\ cw' = [cw EXCEPT ![r].pc = "done"]
    /\ UNCHANGED <<cluster_client, cluster_posted, uuids, person_id>>
    /\ ClusterUnchanged

\* eps = 1 - confidence, in tenths.
Eps(c) == 10 - c

\* cosine_distances of two embeddings, in tenths: 1 - cos of 0, 60, 120, 180
\* degrees.
cosine_distance(a, b) ==
    LET d == IF a < b THEN b - a ELSE a - b
    IN  IF d = 0 THEN 0 ELSE IF d = 1 THEN 5 ELSE IF d = 2 THEN 15 ELSE 20

\* Variant of Component: a point's cluster is its own neighbourhood only, with
\* no expansion through the neighbours' neighbourhoods.
NeighbourhoodOnly(points, eps, S) ==
    S \cup {b \in 1 .. Len(points) :
               \E a \in S : cosine_distance(points[a].vector,
                                            points[b].vector) <= eps}

\* DBSCAN(eps, min_samples=1, metric='precomputed').fit_predict: every point is
\* a core point, so clusters are the connected components of the "distance <=
\* eps" graph, labelled 0, 1, ... in the order of their first point.
RECURSIVE Component(_, _, _)
Component(points, eps, S) ==
    LET T == S \cup {b \in 1 .. Len(points) :
                       \E a \in S : cosine_distance(points[a].vector,
                                                    points[b].vector) <= eps}
    IN  IF T = S THEN S ELSE Component(points, eps, T)

FirstOf(points, eps, a) ==
    CHOOSE m \in Component(points, eps, {a}) :
        \A k \in Component(points, eps, {a}) : m <= k

fit_predict(points, eps) ==
    [a \in 1 .. Len(points) |->
        Cardinality({FirstOf(points, eps, b) : b \in 1 .. Len(points)}
                      \cap (1 .. (FirstOf(points, eps, a) - 1)))]

\* DBSCAN rejects eps <= 0: the exception reaches cluster_worker's handler.
ClusterRaise(r) ==
    /\ r \in DOMAIN cw
    /\ cw[r].pc = "fetched"
    /\ cw[r].all_points # <<>>
    /\ Eps(cluster_posted[r].confidence) <= 0
    /\ ACTIVE_CLUSTERS' = [ACTIVE_CLUSTERS EXCEPT ![WorkerProcess][cw[r].job_id] =
            [@ EXCEPT !.status = "failed", !.error = "eps must be positive"]]
    /\ cw' = [cw EXCEPT ![r].pc = "done"]
    /\ UNCHANGED <<cluster_client, cluster_posted, uuids, person_id>>
    /\ ClusterUnchanged

ClusterFit(r) ==
    /\ r \in DOMAIN cw
    /\ cw[r].pc = "fetched"
    /\ cw[r].all_points # <<>>
    /\ Eps(cluster_posted[r].confidence) > 0
    /\ cw' = [cw EXCEPT ![r] =
                [@ EXCEPT !.cluster_labels =
                              fit_predict(cw[r].all_points,
                                          Eps(cluster_posted[r].confidence)),
                          !.pc = "update", !.next = 1, !.updated_count = 0]]
    /\ UNCHANGED <<cluster_client, cluster_posted, uuids, ACTIVE_CLUSTERS, person_id>>
    /\ ClusterUnchanged

\* "for cluster_id, faces in clusters.items(): for face in faces": the indices
\* of all_points by label, and within a label in list order.
RECURSIVE UpdateOrder(_, _)
UpdateOrder(labels, l) ==
    IF \A a \in 1 .. Len(labels) : labels[a] < l THEN <<>>
    ELSE SelectSeq([a \in 1 .. Len(labels) |-> a], LAMBDA a : labels[a] = l)
           \o UpdateOrder(labels, l + 1)

\* person_id = f"person_{group_id}_{person_id_counter}"; the counter is the
\* position of the cluster in clusters.items(), label + 1.
PersonId(g, label) == <<"person", g, label + 1>>

CurrentFace(r) == UpdateOrder(cw[r].cluster_labels, 0)[cw[r].next]

\* Variant of SetPayloadOk: the patch selects no points, so that the store
\* applies it to every point of the collection.
SetPayloadOkAllPoints(r) ==
    /\ r \in DOMAIN cw
    /\ cw[r].pc = "update"
    /\ cw[r].next <= Len(cw[r].all_points)
    /\ person_id' = [id \in {p.id : p \in store} |->
                        PersonId(cluster_posted[r].group_id,
                                 cw[r].cluster_labels[CurrentFace(r)])] @@ person_id
    /\ cw' = [cw EXCEPT ![r] = [@ EXCEPT !.next = @ + 1, !.updated_count = @ + 1]]
    /\ UNCHANGED <<cluster_client, cluster_posted, uuids, ACTIVE_CLUSTERS>>
    /\ ClusterUnchanged

\* qclient.set_payload(payload_key="person_id", ...) returns.
SetPayloadOk(r) ==
    /\ r \in DOMAIN cw
    /\ cw[r].pc = "update"
    /\ cw[r].next <= Len(cw[r].all_points)
    /\ person_id' = (cw[r].all_points[CurrentFace(r)].id :>
                        PersonId(cluster_posted[r].group_id,
                                 cw[r].cluster_labels[CurrentFace(r)])) @@ person_id
    /\ cw' = [cw EXCEPT ![r] = [@ EXCEPT !.next = @ + 1, !.updated_count = @ + 1]]
    /\ UNCHANGED <<cluster_client, cluster_posted, uuids, ACTIVE_CLUSTERS>>
    /\ ClusterUnchanged

\* qclient.set_payload raises: logged, the face is left as it was.
SetPayloadRaise(r) ==
    /\ r \in DOMAIN cw
    /\ cw[r].pc = "update"
    /\ cw[r].next <= Len(cw[r].all_points)
    /\ cw' = [cw EXCEPT ![r].next = @ + 1]
    /\ UNCHANGED <<cluster_client, cluster_posted, uuids, ACTIVE_CLUSTERS, person_id>>
    /\ ClusterUnchanged

\* ACTIVE_CLUSTERS[job_id].update({'status': 'completed', ...})
ClusterCompleted(r) ==
    /\ r \in DOMAIN cw
    /\ cw[r].pc = "update"
    /\ cw[r].next > Len(cw[r].all_points)
    /\ ACTIVE_CLUSTERS' = [ACTIVE_CLUSTERS EXCEPT ![WorkerProcess][cw[r].job_id] =
            [@ EXCEPT !.status = "completed",
                      !.total_faces = Len(cw[r].all_points),
                      !.clusters_created =
                          Cardinality({cw[r].cluster_labels[a] :
                                          a \in 1 .. Len(cw[r].cluster_labels)}),
                      !.faces_updated = cw[r].updated_count]]
    /\ cw' = [cw EXCEPT ![r].pc = "done"]
    /\ UNCHANGED <<cluster_client, cluster_posted, uuids, person_id>>
    /\ ClusterUnchanged

ClusterStep(r) ==
    \/ ClusterRegister(r)
    \/ ScrollPage(r)
    \/ ScrollEmpty(r)
    \/ ScrollRaise(r)
    \/ ClusterNoFaces(r)
    \/ ClusterRaise(r)
    \/ ClusterFit(r)
    \/ SetPayloadOk(r)
    \/ SetPayloadRaise(r)
    \/ ClusterCompleted(r)

\* The cluster scenario: the collection holds up to MaxPoints points written by
\* an earlier digest job, none of them labelled; the digest side is idle.
StoredPoint(k, g, v) ==
    [id |-> FaceId(1, k, 1), vector |-> v, group_id |-> g, image_path |-> k,
     face_index |-> 1]

InitCluster ==
    /\ source = [kind |-> "local", listable |-> TRUE, n |-> 0]
    /\ client = 0
    /\ posted = <<>>
    /\ ACTIVE_DIGESTS = <<>>
    /\ dpc = [j \in 1 .. client |-> "idle"]
    /\ image_files = [j \in 1 .. client |-> 0]
    /\ processed = [j \in 1 .. client |-> 0]
    /\ task = [j \in 1 .. client |-> <<>>]
    /\ calls = [j \in 1 .. client |-> <<>>]
    /\ collection = TRUE
    /\ \E n \in 0 .. MaxPoints :
          \E g \in [1 .. n -> PointGroups], v \in [1 .. n -> Vectors] :
              store = {StoredPoint(k, g[k], v[k]) : k \in 1 .. n}
    /\ celery_app \in BOOLEAN
    /\ cluster_client = MaxClusterJobs
    /\ cluster_posted = <<>>
    /\ uuids = 0
    /\ ACTIVE_CLUSTERS = [p \in {"web", "celery"} |-> <<>>]
    /\ cw = <<>>
    /\ person_id = <<>>
    /\ fc = <<>>

NextCluster ==
    \/ \E g \in Groups, c \in Confidences : cluster_endpoint(g, c)
    \/ \E r \in 1 .. MaxClusterJobs : ClusterStep(r)

SpecCluster == InitCluster /\ [][NextCluster]_vars

\* The cluster scenario with its requests made one after the other: a client
\* posts its next request when the worker of the previous one has returned.
WorkersDone == \A r \in DOMAIN cw : cw[r].pc = "done"

InitClusterSeq ==
    /\ source = [kind |-> "local", listable |-> TRUE, n |-> 0]
    /\ client = 0
    /\ posted = <<>>
    /\ ACTIVE_DIGESTS = <<>>
    /\ dpc = [j \in 1 .. client |-> "idle"]
    /\ image_files = [j \in 1 .. client |-> 0]
    /\ processed = [j \in 1 .. client |-> 0]
    /\ task = [j \in 1 .. client |-> <<>>]
    /\ calls = [j \in 1 .. client |-> <<>>]
    /\ collection = TRUE
    /\ \E n \in 0 .. MaxPoints :
          \E g \in [1 .. n -> PointGroups], v \in [1 .. n -> Vectors] :
              store = {StoredPoint(k, g[k], v[k]) : k \in 1 .. n}
    /\ celery_app = FALSE
    /\ cluster_client = MaxClusterJobs
    /\ cluster_posted = <<>>
    /\ uuids = 0
    /\ ACTIVE_CLUSTERS = [p \in {"web", "celery"} |-> <<>>]
    /\ cw = <<>>
    /\ person_id = <<>>
    /\ fc = <<>>

NextClusterSeq ==
    \/ WorkersDone /\ \E g \in Groups, c \in Confidences : cluster_endpoint(g, c)
    \/ \E r \in 1 .. MaxClusterJobs : ClusterStep(r)

SpecClusterSeq == InitClusterSeq /\ [][NextClusterSeq]_vars

\* The overlap scenario: RacingJobs requests for the one group whose points
\* the collection holds, served by the web process.  FastAPI runs each
\* background cluster_worker on a thread of its pool as soon as the response is
\* sent, so the workers of two requests run side by side.
InitClusterRace ==
    /\ source = [kind |-> "local", listable |-> TRUE, n |-> 0]
    /\ client = 0
    /\ posted = <<>>
    /\ ACTIVE_DIGESTS = <<>>
    /\ dpc = [j \in 1 .. client |-> "idle"]
    /\ image_files = [j \in 1 .. client |-> 0]
    /\ processed = [j \in 1 .. client |-> 0]
    /\ task = [j \in 1 .. client |-> <<>>]
    /\ calls = [j \in 1 .. client |-> <<>>]
    /\ collection = TRUE
    /\ \E n \in 0 .. MaxPoints :
          \E v \in [1 .. n -> Vectors] :
              store = {StoredPoint(k, "g1", v[k]) : k \in 1 .. n}
    /\ celery_app = FALSE
    /\ cluster_client = RacingJobs
    /\ cluster_posted = <<>>
    /\ uuids = 0
    /\ ACTIVE_CLUSTERS = [p \in {"web", "celery"} |-> <<>>]
    /\ cw = <<>>
    /\ person_id = <<>>
    /\ fc = <<>>

NextClusterRace ==
    \/ \E g \in Groups, c \in Confidences : cluster_endpoint(g, c)
    \/ \E r \in 1 .. RacingJobs : ClusterStep(r)

SpecClusterRace == InitClusterRace /\ [][NextClusterRace]_vars

\* ------------------------------------------------ FaceClusterer (script)
\* face_clustering.py run against the collection the digest jobs write
\* (both default to "face_embeddings").  Embeddings are unit vectors at
\* multiples of 60 degrees; similarity and distance are in tenths.
Directions == {0, 1, 2, 3}

\* "top_k=10", the default of find_similar_faces.
top_k == 10
TopKs == {1, top_k}

\* "batch_size = 1000" of get_all_embeddings.
embeddings_batch_size == 1000

\* A fraction num / den with den > 0, as the pair <<num, den>>.
AddFrac(x, y) == <<x[1] * y[2] + y[1] * x[2], x[2] * y[2]>>
FracEq(x, y) == x[1] * y[2] = y[1] * x[2]

\* client.scroll(limit, offset): the points from id offset on, in id order;
\* offset <<>> is None.
PointsFrom(offset) ==
    InIdOrder({p \in store : offset = <<>> \/ ~IdLess(p.id, offset)})

FCUnchanged ==
    UNCHANGED <<source, client, posted, ACTIVE_DIGESTS, dpc, image_files, processed,
                task, calls, collection, celery_app, cluster_client, cluster_posted,
                uuids, ACTIVE_CLUSTERS, cw>>

\* run_full_clustering is called: get_all_embeddings starts with offset = None.
run_full_clustering ==
    /\ fc.pc = "idle"
    /\ fc' = [fc EXCEPT !.pc = "scroll"]
    /\ UNCHANGED <<store, person_id>>
    /\ FCUnchanged

\* One pass of "while True": a page is appended; the loop ends when
\* next_offset is None, else goes on from next_offset.
get_all_embeddings ==
    /\ fc.pc = "scroll"
    /\ LET rest == PointsFrom(fc.offset)
           more == Len(rest) > embeddings_batch_size
           page == IF more THEN SubSeq(rest, 1, embeddings_batch_size) ELSE rest
       IN  fc' = [fc EXCEPT !.all_points = @ \o page,
                            !.offset = IF more THEN rest[embeddings_batch_size + 1].id
                                       ELSE <<>>,
                            !.pc = IF more THEN "scroll" ELSE "fetched"]
    /\ UNCHANGED <<store, person_id>>
    /\ FCUnchanged

\* client.scroll raises: nothing catches it, the run ends with the exception.
GetAllEmbeddingsRaise ==
    /\ fc.pc = "scroll"
    /\ fc' = [fc EXCEPT !.pc = "raised"]
    /\ UNCHANGED <<store, person_id>>
    /\ FCUnchanged

\* "if len(embeddings) == 0: return None"
ReturnNone ==
    /\ fc.pc = "fetched"
    /\ fc.all_points = <<>>
    /\ fc' = [fc EXCEPT !.pc = "done", !.returned = "None"]
    /\ UNCHANGED <<store, person_id>>
    /\ FCUnchanged

\* cluster_faces: DBSCAN over 1 - cosine similarity with eps = 1 - threshold.
cluster_faces ==
    /\ fc.pc = "fetched"
    /\ fc.all_points # <<>>
    /\ Eps(fc.similarity_threshold) > 0
    /\ fc' = [fc EXCEPT !.person_ids =
                            fit_predict(fc.all_points, Eps(fc.similarity_threshold)),
                        !.pc = "evaluate"]
    /\ UNCHANGED <<store, person_id>>
    /\ FCUnchanged

\* DBSCAN rejects eps <= 0; nothing catches the exception.
ClusterFacesRaise ==
    /\ fc.pc = "fetched"
    /\ fc.all_points # <<>>
    /\ Eps(fc.similarity_threshold) <= 0
    /\ fc' = [fc EXCEPT !.pc = "raised"]
    /\ UNCHANGED <<store, person_id>>
    /\ FCUnchanged

\* np.dot(normalized, normalized.T)[a][b], in tenths.
cosine_similarity(a, b) == 10 - cosine_distance(a, b)

\* np.unique(cluster_labels): the distinct labels in ascending order.
RECURSIVE Ascending(_)
Ascending(S) ==
    IF S = {} THEN <<>>
    ELSE LET least == CHOOSE l \in S : \A m \in S : l <= m
         IN  <<least>> \o Ascending(S \ {least})

unique_labels(labels) == Ascending({labels[a] : a \in 1 .. Len(labels)})

\* embeddings[cluster_labels == label]: the indices of the cluster's members.
cluster_mask(labels, label) ==
    SelectSeq([a \in 1 .. Len(labels) |-> a], LAMBDA a : labels[a] = label)

\* sim_matrix[np.triu_indices_from(sim_matrix, k=1)] summed: row i from
\* column j on, and all rows from row i on.
RECURSIVE RowSum(_, _, _, _)
RowSum(points, m, i, j) ==
    IF j > Len(m) THEN 0
    ELSE cosine_similarity(points[m[i]].vector, points[m[j]].vector)
           + RowSum(points, m, i, j + 1)

RECURSIVE TriuSum(_, _, _)
TriuSum(points, m, i) ==
    IF i >= Len(m) THEN 0
    ELSE RowSum(points, m, i, i + 1) + TriuSum(points, m, i + 1)

\* "for label in unique_labels: if len(cluster_embeddings) > 1:
\* purities.append(np.mean(sim_values))", from position k of unique_labels on.
RECURSIVE purities(_, _, _)
purities(points, labels, k) ==
    IF k > Len(unique_labels(labels)) THEN <<>>
    ELSE LET m == cluster_mask(labels, unique_labels(labels)[k])
         IN  (IF Len(m) > 1
              THEN <<<<TriuSum(points, m, 1), (Len(m) * (Len(m) - 1)) \div 2>>>>
              ELSE <<>>)
               \o purities(points, labels, k + 1)

RECURSIVE SumFrac(_)
SumFrac(fs) == IF fs = <<>> THEN <<0, 1>> ELSE AddFrac(fs[1], SumFrac(Tail(fs)))

\* Variant of avg_purity: every cluster counted, a cluster of one as 1.0.
AvgPurityWithSingletons(points, labels) ==
    LET ps == purities(points, labels, 1)
        singles == Len(unique_labels(labels)) - Len(ps)
    IN  <<SumFrac(ps)[1] + 10 * singles * SumFrac(ps)[2],
          SumFrac(ps)[2] * Len(unique_labels(labels))>>

\* "avg_purity = np.mean(purities) if purities else 1.0"
avg_purity(points, labels) ==
    LET ps == purities(points, labels, 1)
    IN  IF ps = <<>> THEN <<10, 1>>
        ELSE <<SumFrac(ps)[1], SumFrac(ps)[2] * Len(ps)>>

MaxOf(S) == CHOOSE x \in S : \A y \in S : y <= x

\* evaluate_clustering_quality's dict, without the two real-valued entries
\* avg_faces_per_person and silhouette_score.
evaluate_clustering_quality(points, labels) ==
    LET counts == [k \in 1 .. Len(unique_labels(labels)) |->
                      Len(cluster_mask(labels, unique_labels(labels)[k]))]
    IN  [total_faces |-> Len(points),
         total_persons |-> Len(unique_labels(labels)),
         max_faces_per_person |-> MaxOf({counts[k] : k \in DOMAIN counts}),
         single_face_persons |-> Cardinality({k \in DOMAIN counts : counts[k] = 1}),
         avg_cluster_purity |-> avg_purity(points, labels)]

Evaluate ==
    /\ fc.pc = "evaluate"
    /\ fc' = [fc EXCEPT !.metrics =
                            evaluate_clustering_quality(fc.all_points, fc.person_ids),
                        !.pc = "update", !.next = 1]
    /\ UNCHANGED <<store, person_id>>
    /\ FCUnchanged

\* person_groups: the labels in the order of their first point, each with the
\* indices of its points.
RECURSIVE person_groups(_, _)
person_groups(labels, a) ==
    IF a > Len(labels) THEN <<>>
    ELSE (IF \E b \in 1 .. (a - 1) : labels[b] = labels[a] THEN <<>>
          ELSE <<labels[a]>>)
           \o person_groups(labels, a + 1)

CurrentPerson == person_groups(fc.person_ids, 1)[fc.next]
PointList == {fc.all_points[a].id : a \in
                 {b \in 1 .. Len(fc.person_ids) : fc.person_ids[b] = CurrentPerson}}

\* client.set_payload(payload={"person_id": person_id, ...}, points=point_list)
\* returns: one call labels every point of the person.
UpdatePersonOk ==
    /\ fc.pc = "update"
    /\ fc.next <= Len(person_groups(fc.person_ids, 1))
    /\ person_id' = [id \in PointList |-> CurrentPerson] @@ person_id
    /\ fc' = [fc EXCEPT !.next = @ + 1, !.set_payload_calls = @ + 1,
                        !.successful_updates = @ + Cardinality(PointList)]
    /\ UNCHANGED store
    /\ FCUnchanged

\* ... raises: "failed_updates += len(point_list) ... continue".
UpdatePersonRaise ==
    /\ fc.pc = "update"
    /\ fc.next <= Len(person_groups(fc.person_ids, 1))
    /\ fc' = [fc EXCEPT !.next = @ + 1, !.set_payload_calls = @ + 1,
                        !.failed_updates = @ + Cardinality(PointList)]
    /\ UNCHANGED <<store, person_id>>
    /\ FCUnchanged

\* "return metrics"
ReturnMetrics ==
    /\ fc.pc = "update"
    /\ fc.next > Len(person_groups(fc.person_ids, 1))
    /\ fc' = [fc EXCEPT !.pc = "done", !.returned = "metrics"]
    /\ UNCHANGED <<store, person_id>>
    /\ FCUnchanged

\* client.query_points(query, limit).points: the limit points of the highest
\* cosine similarity to the query, best first.
RECURSIVE query_points(_, _, _)
query_points(S, query, limit) ==
    IF S = {} \/ limit = 0 THEN <<>>
    ELSE LET best == CHOOSE p \in S : \A q \in S \ {p} :
                        \/ cosine_similarity(query, q.vector)
                              < cosine_similarity(query, p.vector)
                        \/ /\ cosine_similarity(query, q.vector)
                                = cosine_similarity(query, p.vector)
                           /\ IdLess(p.id, q.id)
         IN  <<best>> \o query_points(S \ {best}, query, limit - 1)

\* One entry of find_similar_faces' results; person_id -1 is None.
Hit(p, query) ==
    [person_id |-> IF p.id \in DOMAIN person_id THEN person_id[p.id] ELSE -1,
     similarity |-> cosine_similarity(query, p.vector),
     image_path |-> p.image_path]

\* find_similar_faces(query_embedding, top_k): the hits are returned as a
\* list; hit.payload['face_id'] raises KeyError when the payload has no such
\* key.  Nothing is written to the store.
find_similar_faces(query_embedding, k) ==
    /\ fc.found = "none"
    /\ LET hits == query_points(store, query_embedding, k)
       IN  fc' = [fc EXCEPT
                    !.query = query_embedding,
                    !.found = IF hits # <<>> /\ ~fc.payload_face_id
                              THEN "KeyError" ELSE "returned",
                    !.results = IF hits # <<>> /\ ~fc.payload_face_id THEN <<>>
                                ELSE [h \in 1 .. Len(hits) |->
                                         Hit(hits[h], query_embedding)]]
    /\ UNCHANGED <<store, person_id>>
    /\ FCUnchanged

\* A digest job's upsert adds a point to the collection.
NewRecord(v) ==
    /\ Cardinality(store) < MaxRecords
    /\ store' = store \cup {StoredPoint(Cardinality(store) + 1, "g1", v)}
    /\ UNCHANGED <<fc, person_id>>
    /\ FCUnchanged

\* The script's scenario: a collection of up to MaxRecords unlabelled points,
\* one FaceClusterer, one run, one lookup; the services are idle.
InitBatch ==
    /\ source = [kind |-> "local", listable |-> TRUE, n |-> 0]
    /\ client = 0
    /\ posted = <<>>
    /\ ACTIVE_DIGESTS = <<>>
    /\ dpc = [j \in 1 .. client |-> "idle"]
    /\ image_files = [j \in 1 .. client |-> 0]
    /\ processed = [j \in 1 .. client |-> 0]
    /\ task = [j \in 1 .. client |-> <<>>]
    /\ calls = [j \in 1 .. client |-> <<>>]
    /\ collection = TRUE
    /\ \E n \in 0 .. MaxRecords :
          \E v \in [1 .. n -> Directions] :
              store = {StoredPoint(k, "g1", v[k]) : k \in 1 .. n}
    /\ celery_app = FALSE
    /\ cluster_client = 0
    /\ cluster_posted = <<>>
    /\ uuids = 0
    /\ ACTIVE_CLUSTERS = [p \in {"web", "celery"} |-> <<>>]
    /\ cw = <<>>
    /\ person_id = <<>>
    /\ \E th \in Confidences, key \in BOOLEAN : fc = NewFaceClusterer(th, key)

NextBatch ==
    \/ run_full_clustering
    \/ get_all_embeddings
    \/ GetAllEmbeddingsRaise
    \/ ReturnNone
    \/ cluster_faces
    \/ ClusterFacesRaise
    \/ Evaluate
    \/ UpdatePersonOk
    \/ UpdatePersonRaise
    \/ ReturnMetrics
    \/ \E q \in Directions, k \in TopKs : find_similar_faces(q, k)
    \/ \E v \in Directions : NewRecord(v)

SpecBatch == InitBatch /\ [][NextBatch]_vars

\* Both batch clustering runs over one collection: the points of an earlier
\* digest job, which are faces of one person in either group, the cluster jobs
\* of the service and one run of the script (face_clustering.py's collection
\* defaults to the service's).
InitRuns ==
    /\ source = [kind |-> "local", listable |-> TRUE, n |-> 0]
    /\ client = 0
    /\ posted = <<>>
    /\ ACTIVE_DIGESTS = <<>>
    /\ dpc = [j \in 1 .. client |-> "idle"]
    /\ image_files = [j \in 1 .. client |-> 0]
    /\ processed = [j \in 1 .. client |-> 0]
    /\ task = [j \in 1 .. client |-> <<>>]
    /\ calls = [j \in 1 .. client |-> <<>>]
    /\ collection = TRUE
    /\ \E n \in 0 .. MaxPoints :
          \E g \in [1 .. n -> PointGroups] :
              store = {StoredPoint(k, g[k], 0) : k \in 1 .. n}
    /\ celery_app = FALSE
    /\ cluster_client = MaxClusterJobs
    /\ cluster_posted = <<>>
    /\ uuids = 0
    /\ ACTIVE_CLUSTERS = [p \in {"web", "celery"} |-> <<>>]
    /\ cw = <<>>
    /\ person_id = <<>>
    /\ \E th \in Confidences : fc = NewFaceClusterer(th, FALSE)

\* A step of the script's run_full_clustering.
ScriptStep ==
    \/ run_full_clustering
    \/ get_all_embeddings
    \/ GetAllEmbeddingsRaise
    \/ ReturnNone
    \/ cluster_faces
    \/ ClusterFacesRaise
    \/ Evaluate
    \/ UpdatePersonOk
    \/ UpdatePersonRaise
    \/ ReturnMetrics

\* The runs of the scenario are made one at a time: a cluster job is requested,
\* and the script started, when no other run is under way.
ScriptQuiet == fc.pc \in {"idle", "done", "raised"}

NextRuns ==
    \/ /\ WorkersDone
       /\ ScriptQuiet
       /\ \E g \in Groups, c \in Confidences : cluster_endpoint(g, c)
    \/ \E r \in 1 .. MaxClusterJobs : ClusterStep(r)
    \/ WorkersDone /\ ScriptStep

SpecRuns == InitRuns /\ [][NextRuns]_vars

\* ------------------------------------------------------------ vocabulary
Status(j) == ACTIVE_DIGESTS[j].status
Completed(j) == Registered(j) /\ Status(j) = "completed"
Ended(j) == dpc[j] = "done"

\* The image's result is with the main thread (collected) or still in the pool.
Collected(j, i) == i <= processed[j]
Returned(j, i) == At(j, i, "done") /\ ~Collected(j, i)

Appearances(list, i) == Cardinality({k \in 1 .. Len(list) : list[k].img = i})

Recorded(j, i) ==
    Appearances(ACTIVE_DIGESTS[j].successful_images, i)
      + Appearances(ACTIVE_DIGESTS[j].no_faces_images, i)
      + Appearances(ACTIVE_DIGESTS[j].failed_images, i)

ListOf(j, outcome) ==
    IF outcome = "success" THEN ACTIVE_DIGESTS[j].successful_images
    ELSE IF outcome = "no_faces" THEN ACTIVE_DIGESTS[j].no_faces_images
    ELSE ACTIVE_DIGESTS[j].failed_images

\* Image i is recorded once, in the list of outcome, and nowhere else.
RecordedAs(j, i, outcome) ==
    Recorded(j, i) = 1 /\ Appearances(ListOf(j, outcome), i) = 1

\* The outcome that an image's own external results call for.
OutcomeOf(c) ==
    IF c.read # "ok" \/ c.faces = -1 THEN "failed"
    ELSE IF c.persisted > 0 THEN "success"
    ELSE "no_faces"

Persisted(j, i) == {p \in store : p.id[1] = j /\ p.id[2] = i}

RECURSIVE SumUpserted(_, _)
SumUpserted(j, n) == IF n = 0 THEN 0 ELSE task[j][n].upserted + SumUpserted(j, n - 1)

ResultIs(j, outcomes) == {i \in DOMAIN task[j] : task[j][i].result \in outcomes}

\* The listing raised; the pool could not be built.
ListingRaised == source.kind # "s3" /\ ~source.listable
PoolRaised(j) == ~ListingRaised /\ ListedImages > 0 /\ threads(j) < 1

\* A failure of image i's own processing: the task returned "failed", or an
\* embedding or a store write of one of its faces gave up.
UnitFailure(j, i) ==
    \/ task[j][i].result = "failed"
    \/ /\ Returned(j, i)
       /\ \/ calls[j][i].faces > calls[j][i].embedded
          \/ calls[j][i].exhausted > 0

\* ----------------------------------------------------------------- claims

\* C1: once a digest job's status in the registry is completed or failed, no
\* later step changes it (and the record stays in the registry).
C1_TerminalStatusIsFinal ==
    [][\A j \in DOMAIN ACTIVE_DIGESTS :
          ACTIVE_DIGESTS[j].status \in Terminal =>
              /\ j \in DOMAIN ACTIVE_DIGESTS'
              /\ ACTIVE_DIGESTS'[j].status = ACTIVE_DIGESTS[j].status]_vars

\* A job with images is completed and the worker has taken its steps after the
\* status write (progress = 100, function ended).
C1_Witness ==
    \E j \in JobIds :
        /\ Completed(j) /\ Ended(j)
        /\ ACTIVE_DIGESTS[j].progress = 100
        /\ ACTIVE_DIGESTS[j].total_images > 0

\* C2: whenever a digest job's status is completed, each enumerated image
\* appears exactly once across successful_images, no_faces_images and
\* failed_images, and the three lengths sum to total_images, for every worker
\* count and interleaving.
C2_EachImageRecordedOnce ==
    \A j \in JobIds :
        Completed(j) =>
            /\ \A i \in 1 .. ACTIVE_DIGESTS[j].total_images : Recorded(j, i) = 1
            /\ Len(ACTIVE_DIGESTS[j].successful_images)
                 + Len(ACTIVE_DIGESTS[j].no_faces_images)
                 + Len(ACTIVE_DIGESTS[j].failed_images)
                 = ACTIVE_DIGESTS[j].total_images

\* A completed job of an overlapping pool with a successful and a failed image.
C2_Witness ==
    \E j \in JobIds :
        /\ Completed(j)
        /\ threads(j) = 2
        /\ ACTIVE_DIGESTS[j].total_images >= 2
        /\ Len(ACTIVE_DIGESTS[j].successful_images) >= 1
        /\ Len(ACTIVE_DIGESTS[j].failed_images) >= 1

\* C3: a read, download, detection, embedding or store-write failure of one
\* image never sets the job's status to failed and never stops the others: the
\* job ends completed with every image collected, and every other image's
\* outcome is the one its own external results call for, recorded once.
C3_UnitFailureIsIsolated ==
    \A j \in JobIds : \A i \in DOMAIN task[j] :
        UnitFailure(j, i) =>
            /\ Registered(j)
            /\ Status(j) # "failed"
            /\ Ended(j) => Status(j) = "completed" /\ processed[j] = image_files[j]
            /\ \A k \in DOMAIN task[j] \ {i} :
                  /\ Returned(j, k) => task[j][k].result = OutcomeOf(calls[j][k])
                  /\ Collected(j, k) => RecordedAs(j, k, task[j][k].result)

\* A job that ended completed although one image failed, next to a success.
C3_Witness ==
    \E j \in JobIds :
        /\ Ended(j) /\ Completed(j)
        /\ \E i, k \in DOMAIN task[j] :
              /\ task[j][i].result = "failed"
              /\ task[j][k].result = "success"
              /\ RecordedAs(j, k, "success")

\* C4 as stated: a digest job ends failed exactly when its source cannot be
\* enumerated, with the error in error_message; in every other case, whatever
\* the request parameters, it ends completed.
C4_FailedOnlyWhenNotEnumerable ==
    \A j \in JobIds :
        Ended(j) =>
            /\ Status(j) = "failed" <=> ListingRaised
            /\ Status(j) = "failed" => ACTIVE_DIGESTS[j].error_message # "None"
            /\ ~ListingRaised => Status(j) = "completed"

\* C4, amended: a digest job ends failed exactly when its source cannot be
\* enumerated or when images were enumerated and threads < 1 (no pool can be
\* built), with the error in error_message; in every other case it ends completed.
C4_FailedOnSetupError ==
    \A j \in JobIds :
        Ended(j) =>
            /\ Status(j) = "failed" <=> (ListingRaised \/ PoolRaised(j))
            /\ Status(j) = "failed" => ACTIVE_DIGESTS[j].error_message # "None"
            /\ ~(ListingRaised \/ PoolRaised(j)) => Status(j) = "completed"

\* A job over an enumerable source that ended failed because threads < 1.
C4_Witness ==
    \E j \in JobIds :
        /\ Ended(j)
        /\ Status(j) = "failed"
        /\ PoolRaised(j)
        /\ ACTIVE_DIGESTS[j].total_images > 0
        /\ ACTIVE_DIGESTS[j].error_message # "None"

C6_UpsertExhaustedIsFailed ==
    \A j \in JobIds : \A i \in DOMAIN task[j] :
        (Returned(j, i) /\ calls[j][i].exhausted > 0) => task[j][i].result = "failed"

\* C7 as stated: a restart over the same source upserts no further record for
\* an image path that an earlier, completed job recorded as successful.
C7_RestartSkipsCompleted ==
    \A p \in store : \A j \in DOMAIN ACTIVE_DIGESTS :
        (j < p.id[1] /\ Status(j) = "completed")
            => \A k \in 1 .. Len(ACTIVE_DIGESTS[j].successful_images) :
                  ACTIVE_DIGESTS[j].successful_images[k].path # p.image_path

\* C8: the final record is a function of the image list and the per-image
\* external results alone, whatever the worker count and interleaving: every
\* returned result is the one its own calls determine, and a completed record
\* has total_images as listed, every image in the list of its result,
\* faces_processed the sum of the persisted faces, and as many failed entries
\* as failed results.
C8_RecordIndependentOfWorkers ==
    \A j \in JobIds :
        /\ \A i \in DOMAIN task[j] :
              Returned(j, i) =>
                  /\ task[j][i].result = OutcomeOf(calls[j][i])
                  /\ task[j][i].upserted = calls[j][i].persisted
        /\ Completed(j) =>
              /\ ACTIVE_DIGESTS[j].total_images = ListedImages
              /\ \A i \in DOMAIN task[j] : RecordedAs(j, i, task[j][i].result)
              /\ \A k \in 1 .. Len(ACTIVE_DIGESTS[j].successful_images) :
                    ACTIVE_DIGESTS[j].successful_images[k].faces_extracted
                      = task[j][ACTIVE_DIGESTS[j].successful_images[k].img].upserted
              /\ ACTIVE_DIGESTS[j].faces_processed = SumUpserted(j, Len(task[j]))
              /\ Len(ACTIVE_DIGESTS[j].failed_images)
                    = Cardinality(ResultIs(j, {"failed"}))
              /\ Len(ACTIVE_DIGESTS[j].successful_images)
                    + Len(ACTIVE_DIGESTS[j].no_faces_images)
                    = Cardinality(ResultIs(j, {"success", "no_faces"}))

\* A completed job of an overlapping pool whose images all succeeded, and whose
\* counters were summed over more than one image.
C8_Witness ==
    \E j \in JobIds :
        /\ Completed(j)
        /\ threads(j) = 2
        /\ ACTIVE_DIGESTS[j].total_images >= 2
        /\ Len(ACTIVE_DIGESTS[j].successful_images) = ACTIVE_DIGESTS[j].total_images
        /\ ACTIVE_DIGESTS[j].faces_processed >= 2

\* C9 as stated: from the moment POST /digest has returned a job id, a poll of
\* that id never answers not-found.
C9_PollNeverNotFound ==
    \A j \in JobIds : Posted(j) => get_digest_status(j) # "404"

\* C10 as stated: the id that POST /cluster-faces returned identifies the job
\* it started: once the worker has registered the job, a poll of that id finds
\* a record, and it is the record the worker keeps.
C10_ReturnedIdIdentifiesJob ==
    \A r \in DOMAIN cw :
        cw[r].pc # "start" =>
            /\ get_cluster_status(cluster_posted[r].job_id) # "404"
            /\ cluster_posted[r].job_id = cw[r].job_id

\* ------------------------------------------------ cluster job vocabulary
\* The records in the scope of request r: the collection's points of its group.
InScope(r) == {p \in store : p.group_id = cluster_posted[r].group_id}

\* The record that cluster_worker r keeps in its process's registry.
ClusterRecord(r) == ACTIVE_CLUSTERS[WorkerProcess][cw[r].job_id]

\* cluster_worker r has returned with its record's status completed.
ClusterDone(r) == cw[r].pc = "done" /\ ClusterRecord(r).status = "completed"

\* The positions of all_points at which the run holds point p.
PositionsOf(r, p) == {k \in 1 .. Len(cw[r].all_points) : cw[r].all_points[k] = p}

\* The run collected each record of its scope exactly once, and nothing else.
EnumeratedOnce(r) ==
    /\ \A p \in InScope(r) : Cardinality(PositionsOf(r, p)) = 1
    /\ Len(cw[r].all_points) = Cardinality(InScope(r))

\* The run put p and q in the same cluster.
SameCluster(r, p, q) ==
    \E k \in PositionsOf(r, p), l \in PositionsOf(r, q) :
        /\ k \in DOMAIN cw[r].cluster_labels
        /\ l \in DOMAIN cw[r].cluster_labels
        /\ cw[r].cluster_labels[k] = cw[r].cluster_labels[l]

Labelled(p) == p.id \in DOMAIN person_id

\* C11 as stated: a cluster run that reports completed collected each in-scope
\* record exactly once, reports their number as total_faces and has labelled
\* every one of them.
C11_CompletedRunCoversScope ==
    \A r \in DOMAIN cw :
        ClusterDone(r) =>
            /\ EnumeratedOnce(r)
            /\ ClusterRecord(r).total_faces = Cardinality(InScope(r))
            /\ \A p \in InScope(r) : Labelled(p)

\* C12 as stated, for a run whose enumeration was exact: once it reports
\* completed every in-scope record carries a person_id, and two in-scope
\* records carry the same one iff the run put them in the same cluster.
C12_StoredLabelsAreTheRuns ==
    \A r \in DOMAIN cw :
        (ClusterDone(r) /\ EnumeratedOnce(r)) =>
            \A p, q \in InScope(r) :
                /\ Labelled(p)
                /\ Labelled(q)
                /\ person_id[p.id] = person_id[q.id] <=> SameCluster(r, p, q)

\* C14 as stated: with threshold 1.0 (eps = 0) a run over a non-empty scope
\* ends completed with as many persons as there are distinct embeddings.
C14_ThresholdOneSeparatesDistinct ==
    \A r \in DOMAIN cw :
        (cw[r].pc = "done" /\ cluster_posted[r].confidence = 10
           /\ cw[r].all_points # <<>>) =>
            /\ ClusterRecord(r).status = "completed"
            /\ ClusterRecord(r).clusters_created
                 = Cardinality({cw[r].all_points[k].vector :
                                   k \in 1 .. Len(cw[r].all_points)})

\* cluster_worker r has written a person_id and has more of them to write.
Writing(r) ==
    /\ cw[r].pc = "update"
    /\ cw[r].updated_count > 0
    /\ cw[r].next <= Len(cw[r].all_points)

\* C15 as stated: two runs over the same group never write person-ids side by
\* side; a second run writes nothing until the first has finished.
C15_OneWriterPerGroup ==
    \A r1, r2 \in DOMAIN cw :
        (r1 # r2 /\ cluster_posted[r1].group_id = cluster_posted[r2].group_id)
            => ~(Writing(r1) /\ Writing(r2))

\* The thumbnail step of image i raised: the image was read from a GCS source,
\* the thread is past the step, and no thumbnail was created.
ThumbnailFailed(j, i) ==
    /\ is_gcs
    /\ i \in DOMAIN task[j]
    /\ calls[j][i].read = "ok"
    /\ task[j][i].pc \notin {"queued", "thumbnail"}
    /\ ~task[j][i].thumbnail_created

\* C18: a failure creating or uploading an image's thumbnail is recorded in
\* thumbnail_failures and does not change the image's outcome: detection still
\* runs (when any attempt is allowed it returns, or raises on every attempt)
\* and the returned outcome is the one the image's read, detection, embedding
\* and upsert results call for.
C18_ThumbnailFailureIsHarmless ==
    \A j \in JobIds : \A i \in DOMAIN task[j] :
        ThumbnailFailed(j, i) =>
            /\ BagIn(i, ACTIVE_DIGESTS[j].thumbnail_failures)
            /\ (Returned(j, i) /\ max_retries(j) >= 0) =>
                  /\ \/ calls[j][i].faces >= 0
                     \/ task[j][i].retry_count = max_retries(j) + 1
                  /\ task[j][i].result = OutcomeOf(calls[j][i])

\* An image whose thumbnail step raised went on to have a face persisted and
\* returned success.
C18_Witness ==
    \E j \in JobIds : \E i \in DOMAIN task[j] :
        /\ ThumbnailFailed(j, i)
        /\ Returned(j, i)
        /\ calls[j][i].persisted > 0
        /\ task[j][i].result = "success"
        /\ BagIn(i, ACTIVE_DIGESTS[j].thumbnail_failures)

\* C20: for every image, face detection is invoked at most max_retries + 1
\* times, and for every detected face the embedding call and the store upsert
\* are each invoked at most max_retries + 1 times; no call is invoked again
\* after it has returned a value.
C20_CallsAreBounded ==
    \A j \in JobIds : \A i \in DOMAIN calls[j] :
        /\ calls[j][i].invoked <= max_retries(j) + 1
        /\ ~calls[j][i].over
        /\ ~calls[j][i].again

\* With max_retries = 1 the upsert of a face has been invoked once and raised,
\* and the thread is at its second attempt, the last one allowed.
C20_Witness ==
    \E j \in JobIds : \E i \in DOMAIN calls[j] :
        /\ max_retries(j) = 1
        /\ At(j, i, "upsert")
        /\ task[j][i].attempt = 1
        /\ calls[j][i].last = <<"represent", task[j][i].face_idx>>
        /\ calls[j][i].invoked = 1

\* A pool thread of job j is inside a call that never returns.
Hung(j) == {i \in DOMAIN task[j] : task[j][i].pc = "hung"}

\* C19 as stated: a unit whose external call never returns does not stall its
\* job: while the job has not reached a terminal status, a step of the job
\* (at the latest the unit's timeout) can still be taken.
C19_HungUnitDoesNotStall ==
    \A j \in JobIds :
        (Registered(j) /\ Hung(j) # {})
            => (Status(j) \in Terminal \/ ENABLED JobStep(j))

\* The lookup of incremental resolution is made in this step, for `query`.
LookedUp == fc.found = "none" /\ fc'.found # "none"

\* The already-labelled neighbours of record p, and those of the highest score.
LabelledNeighbours(p) == {n \in store \ {p} : Labelled(n)}
BestNeighbours(p) ==
    {n \in LabelledNeighbours(p) : \A m \in LabelledNeighbours(p) :
        cosine_similarity(p.vector, m.vector) <= cosine_similarity(p.vector, n.vector)}

\* C16 as stated: when incremental resolution runs for a new (stored,
\* unlabelled) record, the record gets the person-id of its highest-scoring
\* labelled neighbour if that score is at least the threshold, and otherwise a
\* person-id that no record carried before.
C16_ResolutionAdoptsOrMints ==
    [][LookedUp =>
          \A p \in store :
              (p.vector = fc'.query /\ ~Labelled(p)) =>
                  /\ p.id \in DOMAIN person_id'
                  /\ IF \E n \in BestNeighbours(p) :
                            cosine_similarity(p.vector, n.vector)
                                >= fc.similarity_threshold
                     THEN \E n \in BestNeighbours(p) :
                              person_id'[p.id] = person_id[n.id]
                     ELSE \A n \in store \ {p} :
                              Labelled(n) => person_id'[p.id] # person_id[n.id]]_vars

\* evaluate_clustering_quality has returned its metrics for the run's labels.
Evaluated == fc.pc = "update" \/ (fc.pc = "done" /\ fc.returned = "metrics")

\* The clusters of the run as sets of positions, and the unordered pairs of one.
Clusters ==
    {{b \in 1 .. Len(fc.person_ids) : fc.person_ids[b] = fc.person_ids[a]} :
        a \in 1 .. Len(fc.person_ids)}
PairsOf(C) == {pr \in SUBSET C : Cardinality(pr) = 2}
PairSimilarity(pr) ==
    LET a == CHOOSE x \in pr : TRUE
        b == CHOOSE y \in pr \ {a} : TRUE
    IN  cosine_similarity(fc.all_points[a].vector, fc.all_points[b].vector)

RECURSIVE PairSum(_)
PairSum(P) ==
    IF P = {} THEN 0
    ELSE LET pr == CHOOSE x \in P : TRUE
         IN  PairSimilarity(pr) + PairSum(P \ {pr})

\* The mean pairwise cosine similarity of a cluster; 1.0 for a cluster of one.
PurityOf(C) ==
    IF Cardinality(C) > 1 THEN <<PairSum(PairsOf(C)), Cardinality(PairsOf(C))>>
    ELSE <<10, 1>>

RECURSIVE SumPurity(_)
SumPurity(S) ==
    IF S = {} THEN <<0, 1>>
    ELSE LET C == CHOOSE x \in S : TRUE
         IN  AddFrac(PurityOf(C), SumPurity(S \ {C}))

MeanPurity(S) == <<SumPurity(S)[1], SumPurity(S)[2] * Cardinality(S)>>
MultiMember == {C \in Clusters : Cardinality(C) > 1}

\* C17 as stated: the purity is the mean over all clusters of the per-cluster
\* purity, a cluster of one contributing 1.0.
C17_PurityCountsSingletons ==
    Evaluated => FracEq(fc.metrics.avg_cluster_purity, MeanPurity(Clusters))

\* C17, amended: the purity is the mean, over the clusters of two or more
\* members only, of the mean pairwise cosine similarity of the members; it is
\* 1.0 when no cluster has two members, and 1.0 when the members of every
\* cluster are identical.
C17_PurityOfMultiMemberClusters ==
    Evaluated =>
        /\ IF MultiMember = {}
           THEN FracEq(fc.metrics.avg_cluster_purity, <<10, 1>>)
           ELSE FracEq(fc.metrics.avg_cluster_purity, MeanPurity(MultiMember))
        /\ (\A C \in Clusters : \A a, b \in C :
                fc.all_points[a].vector = fc.all_points[b].vector)
              => FracEq(fc.metrics.avg_cluster_purity, <<10, 1>>)

\* A run over a cluster of two different records and a cluster of one: the
\* purity is the pair's similarity, 0.5.
C17_Witness ==
    /\ Evaluated
    /\ \E C \in MultiMember : PairSum(PairsOf(C)) < 10 * Cardinality(PairsOf(C))
    /\ \E C \in Clusters : Cardinality(C) = 1
    /\ FracEq(fc.metrics.avg_cluster_purity, <<5, 1>>)

\* ---------------------------------------------------- thumbnail counters
\* The images of job j whose thumbnail was created and uploaded.
ThumbnailSucceeded(j) == {i \in DOMAIN task[j] : task[j][i].thumbnail_created}

\* C21 as stated: when a job is completed, total_thumbnails_created and
\* total_thumbnails_uploaded each equal the number of images whose thumbnail
\* upload succeeded, under every interleaving of the pool threads.
C21_ThumbnailCountersExact ==
    \A j \in JobIds :
        Completed(j) =>
            /\ ACTIVE_DIGESTS[j].total_thumbnails_created
                 = Cardinality(ThumbnailSucceeded(j))
            /\ ACTIVE_DIGESTS[j].total_thumbnails_uploaded
                 = Cardinality(ThumbnailSucceeded(j))

\* ------------------------------------------------------------ model calls
\* The pool threads of job j that are in DeepFace.extract_faces or
\* DeepFace.represent: a thread at "extract" or "represent" has entered its
\* retry loop and stays there until the call returns or raises for the last
\* time; nothing is acquired before the call and nothing released after it.
InModelCall(j) ==
    {i \in DOMAIN task[j] :
        \/ task[j][i].pc = "extract" /\ max_retries(j) >= 0
        \/ task[j][i].pc = "represent"}

\* C22 as stated: at most one worker thread is inside a call to the face
\* detection/embedding model at any time.
C22_ModelCallsSerialized ==
    \A j \in JobIds : Cardinality(InModelCall(j)) <= 1

\* ------------------------------------------------------ batch clustering
\* Records a and b of a run are within eps of each other.
Within(points, eps, a, b) ==
    cosine_distance(points[a].vector, points[b].vector) <= eps

\* a and b are linked by a chain of records, each within eps of the next,
\* that passes through no record of seen.
RECURSIVE Chained(_, _, _, _, _)
Chained(points, eps, a, b, seen) ==
    \/ a = b
    \/ \E c \in (1 .. Len(points)) \ seen :
          /\ Within(points, eps, a, c)
          /\ Chained(points, eps, c, b, seen \cup {c})

\* The script's run has its labels.
Clustered == fc.pc \in {"evaluate", "update", "done"} /\ fc.person_ids # <<>>

SetPayloadCalls(r) == cw[r].next - 1

\* The persons of cluster_worker r's run: the keys of clusters.
PersonsOf(r) == {cw[r].cluster_labels[a] : a \in 1 .. Len(cw[r].cluster_labels)}

\* C25 as stated: a run persists its labels with one store write per distinct
\* person-id: the number of patch calls of a finished run equals the number
\* of its persons.
C25_OneWritePerPerson ==
    \A r \in DOMAIN cw :
        (cw[r].pc = "done" /\ cw[r].cluster_labels # <<>>)
            => SetPayloadCalls(r) = Cardinality(PersonsOf(r))

\* ------------------------------------------------------------ empty scope
\* The scope of a cluster job is InScope(r), the records of its group; the
\* scope of the script is the whole collection.
\* C26: when no record is in scope a batch clustering run writes nothing to
\* the store: run_full_clustering returns no metrics, and cluster_worker ends
\* completed with total_faces = 0, clusters_created = 0 and faces_updated = 0.
C26_EmptyScopeIsNoOp ==
    /\ \A r \in DOMAIN cw :
          InScope(r) = {} =>
              /\ SetPayloadCalls(r) = 0
              /\ cw[r].updated_count = 0
              /\ cw[r].pc = "done" =>
                    /\ ClusterRecord(r).status = "completed"
                    /\ ClusterRecord(r).total_faces = 0
                    /\ ClusterRecord(r).clusters_created = 0
                    /\ ClusterRecord(r).faces_updated = 0
    /\ store = {} =>
          /\ fc.set_payload_calls = 0
          /\ fc.returned # "metrics"
          /\ fc.pc = "done" => fc.returned = "None"
          /\ person_id = <<>>

\* Over a collection that holds records of another group only, a cluster job
\* has ended; over an empty one, the script's run has returned.
C26_Witness ==
    \/ /\ store # {}
       /\ \E r \in DOMAIN cw :
             /\ InScope(r) = {}
             /\ cw[r].pc = "done"
             /\ cw[r].scrolls > 0
             /\ ClusterRecord(r).status = "completed"
       /\ fc.pc = "done"
    \/ /\ store = {}
       /\ \E r \in DOMAIN cw : cw[r].pc = "done"
       /\ fc.pc = "done"
       /\ fc.returned = "None"

\* ------------------------------------------------- collection provisioning
\* digest_worker j is past the collection check and creation.
Provisioned(j) == dpc[j] \notin {"idle", "get_collection", "create_collection"}

\* C27: digest_worker checks that the collection exists before it enumerates
\* images and attempts to create it only if the check fails; when jobs race
\* and a creation fails because another job already created the collection,
\* the job goes on to its processing and is never marked failed.
C27_CreationRaceIsTolerated ==
    /\ [](\A j \in JobIds :
            /\ Registered(j) => Provisioned(j) /\ Status(j) # "failed"
            /\ (Provisioned(j) /\ dpc[j] # "register") => Registered(j))
    /\ [][\A j \in JobIds :
            /\ (dpc'[j] = "create_collection" /\ dpc[j] # "create_collection")
                  => dpc[j] = "get_collection" /\ ~collection
            /\ (dpc[j] = "get_collection" /\ dpc'[j] = "register") => collection
            /\ (dpc[j] = "create_collection" /\ dpc'[j] # "create_collection")
                  => /\ dpc'[j] = "register"
                     /\ collection'
                     /\ ACTIVE_DIGESTS' = ACTIVE_DIGESTS]_vars

\* Every one of the racing jobs has ended completed with its image collected:
\* one of them created the collection, the creation of each other one failed.
C27_Witness ==
    /\ Cardinality(JobIds) >= 2
    /\ collection
    /\ \A j \in JobIds :
          /\ Ended(j)
          /\ Completed(j)
          /\ ACTIVE_DIGESTS[j].total_images = 1
          /\ processed[j] = 1

\* ------------------------------------------------------------ upsert retry
\* The store's records of face f of image i of job j.
RecordsOf(j, i, f) ==
    {p \in store : p.id[1] = j /\ p.image_path = i /\ p.face_index = f}

\* C28: retrying the upsert of a face never creates a second record: every
\* attempt writes the id minted before the loop, so each detected face has at
\* most one record of its job in the store however many attempts are made.
C28_RetryWritesSameRecord ==
    \A j \in JobIds : \A i \in 1 .. MaxImages : \A f \in 1 .. MaxFaces :
        Cardinality(RecordsOf(j, i, f)) <= 1

\* With one retry allowed, both attempts for a face raised after the store had
\* applied them: the face was written twice and has one record.
C28_Witness ==
    \E j \in JobIds : \E i \in DOMAIN task[j] :
        /\ max_retries(j) = 1
        /\ Returned(j, i)
        /\ calls[j][i].faces = 1
        /\ calls[j][i].exhausted = 1
        /\ Cardinality(RecordsOf(j, i, 1)) = 1

\* ------------------------------------------------------- completed counts
\* sum(e['faces_extracted'] for e in successful_images[:n])
RECURSIVE SumFacesExtracted(_, _)
SumFacesExtracted(list, n) ==
    IF n = 0 THEN 0 ELSE list[n].faces_extracted + SumFacesExtracted(list, n - 1)

\* The points job j's upserts put in the store: one per call that returned.
UpsertsReturned(j) == Cardinality({p \in store : p.id[1] = j})

\* C29: when a digest job is completed, faces_processed equals the length of
\* upserted_ids, the number of upsert calls that returned during the job, and
\* the sum of faces_extracted over successful_images.
C29_CompletedCountsAgree ==
    \A j \in JobIds :
        Completed(j) =>
            LET rec == ACTIVE_DIGESTS[j] IN
            /\ rec.faces_processed = BagCardinality(rec.upserted_ids)
            /\ rec.faces_processed = UpsertsReturned(j)
            /\ rec.faces_processed =
                  SumFacesExtracted(rec.successful_images, Len(rec.successful_images))

\* A completed two-thread job with a successful image whose face is stored,
\* next to an image that ended without a stored face.
C29_Witness ==
    \E j \in JobIds :
        /\ Completed(j)
        /\ threads(j) = 2
        /\ Len(ACTIVE_DIGESTS[j].successful_images) >= 1
        /\ Len(ACTIVE_DIGESTS[j].no_faces_images) >= 1
        /\ UpsertsReturned(j) >= 1
        /\ BagCardinality(ACTIVE_DIGESTS[j].upserted_ids) = UpsertsReturned(j)

\* ------------------------------------------------------------ group scope
\* The stored person_id of point id; "none" while the payload has no such key.
PersonIdOf(labels, id) == IF id \in DOMAIN labels THEN labels[id] ELSE "none"

\* The groups of the cluster jobs whose worker is running or has run.
JobGroups == {cluster_posted[r].group_id : r \in DOMAIN cw}

\* C30: a cluster job for group G patches person_id only on records whose
\* payload group_id is G: no step changes the person_id of a record of a
\* group no job was started for, and no step changes a record's vector (the
\* set of stored points, vectors included, stays as it is).
C30_PatchStaysInGroup ==
    [][/\ store' = store
       /\ \A p \in store :
             PersonIdOf(person_id', p.id) # PersonIdOf(person_id, p.id)
                 => p.group_id \in JobGroups]_vars

\* A finished job for a group has labelled a record of its group while the
\* collection holds a record of another group, which carries no person_id.
C30_Witness ==
    \E r \in DOMAIN cw :
        /\ ClusterDone(r)
        /\ \E p \in InScope(r) : PersonIdOf(person_id, p.id) # "none"
        /\ \E q \in store \ InScope(r) : PersonIdOf(person_id, q.id) = "none"

====
